---------------------------- MODULE Spec2Model ----------------------------
(***************************************************************************)
(* A model of the OCR orchestration pipeline of ocr_hindi: the crash-safe  *)
(* page cache (cache.py), the resumable progress tracker (utils.py), the   *)
(* token-bucket rate limiter (async_processor.py) and the pipeline entry   *)
(* points (async_processor.py, multi_processor.py).                        *)
(***************************************************************************)
EXTENDS Integers, Sequences, FiniteSets, TLC

(***************************************************************************)
(* Bounds of the model.                                                    *)
(***************************************************************************)
NumPages == 2          \* pages of the document are 1..NumPages
MaxRuns == 2           \* calls of a pipeline entry point in one behaviour
NumMarkPages == 3      \* pages the marks of the tracker alone range over
JsonChunks == 2        \* write() calls json.dump needs for one snapshot
NumCallers == 3        \* concurrent callers of TokenBucket.acquire
MaxTime == 3           \* clock ticks the rate limiter is observed for
MaxCost == 2           \* largest cost passed to acquire
Capacity == 1          \* TokenBucket capacity, in tokens
TicksPerToken == 1     \* clock ticks per refilled token (rate = 1/TicksPerToken)

Pages == 1..NumPages
\* The texts a backend may recognize: one of a single character, and one of
\* two characters that ends in whitespace.
Texts == {<<"x">>, <<"y", " ">>}

\* Optional values: Python's None, and a present value.
None == [exists |-> FALSE, data |-> <<>>]
Some(d) == [exists |-> TRUE, data |-> d]

Min(a, b) == IF a < b THEN a ELSE b
Range(s) == {s[i] : i \in 1..Len(s)}
Contains(s, e) == \E i \in 1..Len(s) : s[i] = e
Prefix(s, n) == SubSeq(s, 1, n)

RECURSIVE SortedSeq(_)
SortedSeq(S) ==
    IF S = {} THEN <<>>
    ELSE LET m == CHOOSE x \in S : \A y \in S : x <= y
         IN  <<m>> \o SortedSeq(S \ {m})

VARIABLES
    files,          \* the cache directory: path -> file (or None)
    sv,             \* the OCRCache.save call in progress
    committed,      \* history: page -> the text last renamed into place
    state,          \* the in-memory ProgressState
    progress_file,  \* the persisted snapshot file
    ps,             \* where the ProgressState.save call in progress stands
    last_saved,     \* history: the state of the last save that finished
    tokens,         \* TokenBucket.tokens (in 1/TicksPerToken of a token)
    last_update,    \* TokenBucket.last_update
    now,            \* time.monotonic(), in ticks since construction
    lock,           \* TokenBucket._lock: the holder, or 0
    caller,         \* per caller: its acquire call
    granted,        \* history: tokens granted to acquire calls that returned
    pc,             \* where the running entry point stands
    run,            \* the arguments and first locals of the running call
    runs,           \* calls of an entry point so far
    shutdown,       \* shutdown_requested / AsyncOCRProcessor._shutdown
    pending_pages,  \* the pages this call has to process
    image_paths,    \* the pages whose conversion produced an image
    task,           \* the recognition tasks of this call
    results,        \* the results dict of this call: page -> text
    output_file,    \* the output artifact: its sections, in file order
    wo,             \* the _write_output call in progress
    hb,             \* one HybridBackend and its process_image call
    rl,             \* one call of one of the retry loops
    mk,             \* history: the last mark call made on its own, and the state it found
    md,             \* one call of MantraDetector.detect
    wh,             \* history: the _write_output call made on its own
    hs              \* HybridBackend._stats and the threads running process_image

cacheVars == <<files, sv, committed>>
progVars == <<state, progress_file, ps, last_saved>>
bucketVars == <<tokens, last_update, now, lock, caller, granted>>
pipeVars == <<pc, run, runs, shutdown, pending_pages, image_paths, task,
              results, output_file, wo>>
unitVars == <<hb, rl, mk, md, wh, hs>>
vars == <<cacheVars, progVars, bucketVars, pipeVars, unitVars>>

(***************************************************************************)
(* OCRCache (cache.py).  A path of the cache directory is <<page, suffix>>:*)
(* page_0001.txt is <<1, "txt">>.                                          *)
(***************************************************************************)
Suffixes == {"txt", "tmp", "meta.json"}
CachePaths == Pages \X Suffixes

_page_path(page) == <<page, "txt">>
_meta_path(page) == <<page, "meta.json">>

\* The mutant: the temporary file is the target itself.
with_suffix_same(path, suffix) == path
with_suffix(path, suffix) == <<path[1], suffix>>

SaveIdle == [pc |-> "idle", page |-> 0, text |-> <<>>]
SaveRunning == sv.pc \in {"open_temp", "write_temp", "rename", "meta"}
SaveTarget == _page_path(sv.page)
SaveTemp == with_suffix(SaveTarget, "tmp")

\* temp.write_text: open(temp, "w") creates or truncates the file ...
SaveOpenTemp ==
    /\ sv.pc = "open_temp"
    /\ files' = [files EXCEPT ![SaveTemp] = Some(<<>>)]
    /\ sv' = [sv EXCEPT !.pc = "write_temp"]
    /\ UNCHANGED <<committed, progVars, bucketVars, pipeVars, unitVars>>

\* ... and the text reaches the file piece by piece.
SaveWriteTemp ==
    /\ sv.pc = "write_temp"
    /\ LET sofar == Len(files[SaveTemp].data)
       IN  /\ files' = [files EXCEPT ![SaveTemp] = Some(Prefix(sv.text, sofar + 1))]
           /\ sv' = [sv EXCEPT !.pc = IF sofar + 1 = Len(sv.text)
                                      THEN "rename" ELSE "write_temp"]
    /\ UNCHANGED <<committed, progVars, bucketVars, pipeVars, unitVars>>

\* temp.rename(target): atomic replacement of the target by the temp file.
SaveRename ==
    /\ sv.pc = "rename"
    /\ files' = [p \in CachePaths |->
                    IF p = SaveTarget THEN files[SaveTemp]
                    ELSE IF p = SaveTemp THEN None
                    ELSE files[p]]
    /\ committed' = [committed EXCEPT ![sv.page] = Some(sv.text)]
    /\ sv' = [sv EXCEPT !.pc = "meta"]
    /\ UNCHANGED <<progVars, bucketVars, pipeVars, unitVars>>

\* The metadata write in its own try block: it may fail, and save returns
\* all the same.
SaveMeta ==
    /\ sv.pc = "meta"
    /\ \E outcome \in {"written", "failed"} :
         files' = [files EXCEPT ![_meta_path(sv.page)] =
                      IF outcome = "written" THEN Some(<<"m">>) ELSE @]
    /\ sv' = [sv EXCEPT !.pc = "returned"]
    /\ UNCHANGED <<committed, progVars, bucketVars, pipeVars, unitVars>>

\* The except branch: the temp write or the rename raised.  The temp file
\* is unlinked if it exists (the unlink may fail silently), and the
\* exception is raised again.
SaveFail ==
    /\ sv.pc \in {"open_temp", "write_temp", "rename"}
    /\ \E unlinked \in BOOLEAN :
         files' = IF files[SaveTemp].exists /\ unlinked
                  THEN [files EXCEPT ![SaveTemp] = None]
                  ELSE files
    /\ sv' = [sv EXCEPT !.pc = "raised"]
    /\ UNCHANGED <<committed, progVars, bucketVars, pipeVars, unitVars>>

OCRCache_save ==
    SaveOpenTemp \/ SaveWriteTemp \/ SaveRename \/ SaveMeta \/ SaveFail

OCRCache_get(page) ==
    IF files[_page_path(page)].exists THEN files[_page_path(page)] ELSE None

OCRCache_has(page) == files[_page_path(page)].exists

\* glob("page_*.txt"), the page number parsed from each name, sorted.
OCRCache_pages ==
    SortedSeq({p[1] : p \in {q \in CachePaths : q[2] = "txt" /\ files[q].exists}})

OCRCache_all_results ==
    [p \in {q \in Range(OCRCache_pages) : OCRCache_get(q).exists} |->
        OCRCache_get(p).data]

(***************************************************************************)
(* ProgressState (utils.py).                                               *)
(***************************************************************************)
ProgressState == [completed_pages |-> <<>>, failed_pages |-> <<>>]

\* list.remove drops the first occurrence only.
RemoveFirst(s, e) ==
    IF ~Contains(s, e) THEN s
    ELSE LET i == CHOOSE k \in 1..Len(s) :
                      s[k] = e /\ \A j \in 1..(k - 1) : s[j] # e
         IN  SubSeq(s, 1, i - 1) \o SubSeq(s, i + 1, Len(s))

\* The mutant: the failed mark is left in place.
mark_completed_keeps_failed(st, page) ==
    [st EXCEPT !.completed_pages =
        IF Contains(@, page) THEN @ ELSE Append(@, page)]

mark_completed(st, page) ==
    LET c == IF Contains(st.completed_pages, page)
             THEN st.completed_pages ELSE Append(st.completed_pages, page)
        f == IF Contains(st.failed_pages, page)
             THEN RemoveFirst(st.failed_pages, page) ELSE st.failed_pages
    IN  [completed_pages |-> c, failed_pages |-> f]

mark_failed(st, page) ==
    [st EXCEPT !.failed_pages =
        IF Contains(@, page) THEN @ ELSE Append(@, page)]

\* The mutant: no requested page is left out.
get_pending_pages_all(st, requested_pages) == requested_pages
get_pending_pages(st, requested_pages) ==
    SelectSeq(requested_pages, LAMBDA p : ~Contains(st.completed_pages, p))

\* The snapshot file: the state being dumped and how many pieces of its
\* JSON text have reached the file.
Snapshot(st, n) == Some([st |-> st, written |-> n])

\* json.load raises JSONDecodeError on an empty or cut-off text.
ProgressState_load ==
    IF ~progress_file.exists THEN None
    ELSE IF progress_file.data.written < JsonChunks THEN None
    ELSE Some(progress_file.data.st)

PsRunning == ps \in {"open", "write"}

\* open(progress_file, "w") truncates the snapshot ...
ProgressSaveOpen ==
    /\ ps = "open"
    /\ progress_file' = Snapshot(state, 0)
    /\ ps' = "write"
    /\ UNCHANGED <<state, last_saved, cacheVars, bucketVars, pipeVars, unitVars>>

\* ... and json.dump writes the new text into it piece by piece.
ProgressSaveWrite ==
    /\ ps = "write"
    /\ LET n == progress_file.data.written + 1
       IN  /\ progress_file' = Snapshot(state, n)
           /\ ps' = IF n = JsonChunks THEN "returned" ELSE "write"
           /\ last_saved' = IF n = JsonChunks THEN Some(state) ELSE last_saved
    /\ UNCHANGED <<state, cacheVars, bucketVars, pipeVars, unitVars>>

ProgressState_save == ProgressSaveOpen \/ ProgressSaveWrite

(***************************************************************************)
(* TokenBucket (async_processor.py).  Time is counted in ticks and the     *)
(* token count in 1/TicksPerToken of a token, so that the refill           *)
(* elapsed * rate and the wait deficit / rate are whole numbers:           *)
(* rate = 1/TicksPerToken tokens per tick.                                 *)
(***************************************************************************)
Callers == 1..NumCallers
Scaled(n) == n * TicksPerToken
CallerIdle == [pc |-> "idle", cost |-> 0, wake |-> 0, wait_time |-> 0]

\* The mutant: a refill that is not capped at the capacity.
Refilled_uncapped == tokens + (now - last_update)

\* tokens = min(capacity, tokens + elapsed * rate)
Refilled == Min(Scaled(Capacity), tokens + (now - last_update))

RefillStamp == now

\* "async with self._lock": the caller queues for the lock.
AcquireCall(c) ==
    /\ caller[c].pc = "idle"
    /\ \E cost \in 1..MaxCost :
         caller' = [caller EXCEPT ![c] = [CallerIdle EXCEPT !.pc = "queued", !.cost = cost]]
    /\ UNCHANGED <<tokens, last_update, now, lock, granted, cacheVars, progVars, pipeVars, unitVars>>

\* The caller gets the lock, refills, and either takes its tokens and
\* returns, or starts to sleep for deficit / rate with the lock held.
AcquireLocked(c) ==
    /\ caller[c].pc = "queued"
    /\ lock = 0
    /\ last_update' = RefillStamp
    /\ IF Refilled < Scaled(caller[c].cost)
       THEN /\ tokens' = Refilled
            /\ lock' = c
            /\ caller' = [caller EXCEPT ![c].pc = "sleeping",
                                        ![c].wait_time = Scaled(caller[c].cost) - Refilled,
                                        ![c].wake = now + (Scaled(caller[c].cost) - Refilled)]
            /\ UNCHANGED granted
       ELSE /\ tokens' = Refilled - Scaled(caller[c].cost)
            /\ lock' = 0
            /\ caller' = [caller EXCEPT ![c].pc = "returned", ![c].wait_time = 0]
            /\ granted' = granted + caller[c].cost
    /\ UNCHANGED <<now, cacheVars, progVars, pipeVars, unitVars>>

\* asyncio.sleep(wait_time) is over (it never ends early): tokens = 0, the
\* lock is released and acquire returns.
AcquireWake(c) ==
    /\ caller[c].pc = "sleeping"
    /\ now >= caller[c].wake
    /\ tokens' = 0
    /\ lock' = 0
    /\ caller' = [caller EXCEPT ![c].pc = "returned"]
    /\ granted' = granted + caller[c].cost
    /\ UNCHANGED <<last_update, now, cacheVars, progVars, pipeVars, unitVars>>

\* The caller goes on and may call acquire again.
AcquireDone(c) ==
    /\ caller[c].pc = "returned"
    /\ caller' = [caller EXCEPT ![c] = CallerIdle]
    /\ UNCHANGED <<tokens, last_update, now, lock, granted, cacheVars, progVars, pipeVars, unitVars>>

Tick ==
    /\ now < MaxTime
    /\ now' = now + 1
    /\ UNCHANGED <<tokens, last_update, lock, caller, granted, cacheVars, progVars, pipeVars, unitVars>>

(***************************************************************************)
(* The output artifact (_write_output).  The file is modelled by its       *)
(* sections in file order, each the page number and the text written       *)
(* under "## Page n".                                                      *)
(***************************************************************************)
EmptyMap == <<>>
Merge(old, new) ==
    [p \in (DOMAIN old) \cup (DOMAIN new) |->
        IF p \in DOMAIN new THEN new[p] ELSE old[p]]

RECURSIVE LStrip(_)
LStrip(s) == IF s # <<>> /\ Head(s) = " " THEN LStrip(Tail(s)) ELSE s
RECURSIVE RStrip(_)
RStrip(s) ==
    IF s # <<>> /\ s[Len(s)] = " " THEN RStrip(SubSeq(s, 1, Len(s) - 1)) ELSE s
\* str.strip()
Strip(s) == LStrip(RStrip(s))

Section(page, text) == [page |-> page, text |-> text]
\* The page numbers of the sections of the artifact, in file order.
OutputPages ==
    IF ~output_file.exists THEN <<>>
    ELSE [i \in 1..Len(output_file.data) |-> output_file.data[i].page]
\* The text of the last section of a page.
SectionText(p) ==
    LET i == CHOOSE k \in 1..Len(output_file.data) :
                 /\ output_file.data[k].page = p
                 /\ \A j \in (k + 1)..Len(output_file.data) :
                        output_file.data[j].page # p
    IN  output_file.data[i].text

\* "(.*?)(?=\n---|\Z)": the text of a section as the pattern captures it,
\* up to the first section rule ("---" on a line of its own) in it.
RECURSIVE BeforeRule(_)
BeforeRule(s) ==
    IF s = <<>> \/ Head(s) = "---" THEN <<>> ELSE <<Head(s)>> \o BeforeRule(Tail(s))

\* The sections re.finditer finds in the prior artifact, each text stripped.
ExistingResults ==
    [p \in Range(OutputPages) |-> Strip(BeforeRule(SectionText(p)))]

\* The mutant: the pages in descending order.
sorted_pages_descending(all_results) ==
    LET asc == SortedSeq(DOMAIN all_results)
    IN  [i \in 1..Len(asc) |-> asc[Len(asc) + 1 - i]]
\* sorted_pages = sorted(all_results.keys())
sorted_pages(all_results) == SortedSeq(DOMAIN all_results)

\* The mutant: the prior artifact's text wins over the new result.
MergedResultsOldWins(new) == Merge(new, ExistingResults)
\* all_results = {**existing_results, **results}
MergedResults(new) == Merge(ExistingResults, new)

WoIdle == [pc |-> "idle", all |-> EmptyMap]

\* The prior artifact is read and merged with the results; open(output_file,
\* "w") truncates it and the header is written.
WriteOutputBegin ==
    /\ wo.pc = "begin"
    /\ LET all_results == MergedResults(wo.all)
       IN  /\ wo' = [pc |-> IF DOMAIN all_results = {} THEN "returned" ELSE "sections",
                     all |-> all_results]
           /\ output_file' = Some(<<>>)
    /\ UNCHANGED <<pc, run, runs, shutdown, pending_pages, image_paths, task,
                   results, cacheVars, progVars, bucketVars, unitVars>>

\* The section of the next page of sorted_pages.
WriteOutputSection ==
    /\ wo.pc = "sections"
    /\ LET i == Len(output_file.data) + 1
           p == sorted_pages(wo.all)[i]
       IN  /\ output_file' = Some(Append(output_file.data, Section(p, wo.all[p])))
           /\ wo' = [wo EXCEPT !.pc = IF i = Len(sorted_pages(wo.all))
                                      THEN "returned" ELSE "sections"]
    /\ UNCHANGED <<pc, run, runs, shutdown, pending_pages, image_paths, task,
                   results, cacheVars, progVars, bucketVars, unitVars>>

\* _write_output called on its own: any results, over whatever artifact the
\* calls before it left.  A text may hold a rule ("---") of its own.
OutputTexts == Texts \cup {<<"x", "---", "y">>}

NoWrite == [called |-> FALSE, prior |-> None, new |-> EmptyMap]

WriteOutputCall ==
    /\ pc = "idle"
    /\ wo.pc = "idle"
    /\ \E S \in SUBSET Pages : \E new \in [S -> OutputTexts] :
          /\ wo' = [pc |-> "begin", all |-> new]
          /\ wh' = [called |-> TRUE, prior |-> output_file, new |-> new]
    /\ UNCHANGED <<pc, run, runs, shutdown, pending_pages, image_paths, task,
                   results, output_file, cacheVars, progVars, bucketVars,
                   hb, rl, mk, md, hs>>

\* the call made on its own has returned
WriteOutputDone ==
    /\ pc = "idle"
    /\ wo.pc = "returned"
    /\ wo' = WoIdle
    /\ UNCHANGED <<pc, run, runs, shutdown, pending_pages, image_paths, task,
                   results, output_file, cacheVars, progVars, bucketVars, unitVars>>

(***************************************************************************)
(* MultiBackendProcessor.process_pdf_async (multi_processor.py).           *)
(***************************************************************************)
max_concurrent == 1
RequestLists == {SortedSeq(S) : S \in (SUBSET Pages) \ {{}}}
\* The page lists a caller of the API may pass: any order, repeats allowed.
MaxRequestLen == 2
AnyRequestLists == UNION {[1..n -> Pages] : n \in 1..MaxRequestLen}

NoRun == [entry |-> "none", pages |-> <<>>, resume |-> FALSE, dry_run |-> FALSE,
          cached |-> {}, snapshot |-> None]
Stopped == pc \in {"idle", "returned", "raised", "killed"}

NoResult == [kind |-> "none", text |-> <<>>]
\* AsyncOCRConfig.max_retries: the attempts of _process_single_page.
max_retries == 2
NewTask(page) == [page |-> page, st |-> "new", attempt |-> 0, res |-> NoResult]
\* The task returned: its locals are gone, its result is left.
Finished(t, kind, text) ==
    [t EXCEPT !.st = "done", !.attempt = 0, !.res = [kind |-> kind, text |-> text]]
InFlight == Cardinality({i \in DOMAIN task : task[i].st = "running"})
\* The mutant: the semaphore admits every task.
SemaphoreOpen == TRUE
\* asyncio.Semaphore(max_concurrent): "async with" gets through while fewer
\* than max_concurrent tasks hold it.  The holders are the running tasks: a
\* task that returns without a backend call releases it in the same step.
SemaphoreFree == InFlight < max_concurrent

RECURSIVE MarkAll(_, _)
MarkAll(st, ps_) ==
    IF ps_ = <<>> THEN st
    ELSE MarkAll(mark_completed(st, Head(ps_)), Tail(ps_))

\* The mutant: the pages of the cache stay in the pending list.
ExcludeCached_none(pending, cached_pages) == pending

\* pending_pages = [p for p in pending_pages if p not in cached_pages]
ExcludeCached(pending, cached_pages) ==
    SelectSeq(pending, LAMBDA p : p \notin cached_pages)

\* From the call to the first await: the snapshot is loaded (resume), the
\* pages of the cache are marked completed (resume), the pending pages are
\* computed, and the call takes its dry-run or all-cached exit.
PdfAsyncCall(lists) ==
    /\ Stopped
    /\ runs < MaxRuns
    /\ runs' = runs + 1
    /\ \E pages \in lists, resume \in BOOLEAN, dry_run \in BOOLEAN :
         LET snapshot == IF resume THEN ProgressState_load ELSE None
             st0 == IF snapshot.exists THEN snapshot.data ELSE ProgressState
             cached_pages == Range(OCRCache_pages)
             st1 == IF resume /\ cached_pages # {}
                    THEN MarkAll(st0, OCRCache_pages) ELSE st0
             pending == ExcludeCached(get_pending_pages(st1, pages), cached_pages)
         IN  /\ run' = [entry |-> "process_pdf_async", pages |-> pages,
                        resume |-> resume, dry_run |-> dry_run,
                        cached |-> cached_pages, snapshot |-> snapshot]
             /\ state' = st1
             /\ pending_pages' = pending
             /\ pc' = IF dry_run THEN "returned"
                      ELSE IF pending = <<>> THEN "finalize" ELSE "convert"
    /\ shutdown' = FALSE
    /\ image_paths' = {}
    /\ task' = <<>>
    /\ results' = EmptyMap
    /\ sv' = SaveIdle
    /\ ps' = "idle"
    /\ wo' = WoIdle
    /\ UNCHANGED <<files, committed, progress_file, last_saved, output_file, bucketVars, unitVars>>

\* A call from the command line: parse_page_range made the page list.
PdfAsyncStart == PdfAsyncCall(RequestLists)

\* _convert_pages_async: each pending page gets an image or none; then the
\* tasks are created, one per entry of pending_pages.
PdfAsyncConvert ==
    /\ pc = "convert"
    /\ run.entry = "process_pdf_async"
    /\ \E imgs \in SUBSET Range(pending_pages) : image_paths' = imgs
    /\ task' = [i \in 1..Len(pending_pages) |-> NewTask(pending_pages[i])]
    /\ pc' = "drain_check"
    /\ UNCHANGED <<run, runs, shutdown, pending_pages, results, output_file, wo,
                   cacheVars, progVars, bucketVars, unitVars>>

\* process_page up to its await: the semaphore is taken, and the task
\* returns the shutdown outcome, returns "Image not found", or starts the
\* backend call on an executor thread.  Tasks run while the drain loop awaits.
ProcessPageStart(i) ==
    /\ pc = "drain_await"
    /\ run.entry = "process_pdf_async"
    /\ i \in DOMAIN task
    /\ task[i].st = "new"
    /\ SemaphoreFree
    /\ task' = [task EXCEPT ![i] =
                  IF shutdown THEN Finished(@, "shutdown", <<>>)
                  ELSE IF @.page \notin image_paths THEN Finished(@, "failure", <<>>)
                  ELSE [@ EXCEPT !.st = "running"]]
    /\ UNCHANGED <<pc, run, runs, shutdown, pending_pages, image_paths, results,
                   output_file, wo, cacheVars, progVars, bucketVars, unitVars>>

\* The backend call is over: a successful result, a failed result, or an
\* exception (the image cannot be opened, the backend raises).
ProcessPageFinish(i) ==
    /\ pc = "drain_await"
    /\ run.entry = "process_pdf_async"
    /\ i \in DOMAIN task
    /\ task[i].st = "running"
    /\ \/ \E t \in Texts : task' = [task EXCEPT ![i] = Finished(@, "success", t)]
       \/ task' = [task EXCEPT ![i] = Finished(@, "failure", <<>>)]
       \/ task' = [task EXCEPT ![i] = Finished(@, "raised", <<>>)]
    /\ UNCHANGED <<pc, run, runs, shutdown, pending_pages, image_paths, results,
                   output_file, wo, cacheVars, progVars, bucketVars, unitVars>>

\* The head of "for coro in asyncio.as_completed(tasks)": the loop ends when
\* every task has been awaited, and breaks when shutdown is requested.
PdfAsyncDrainCheck ==
    /\ pc = "drain_check"
    /\ run.entry = "process_pdf_async"
    /\ pc' = IF \A i \in DOMAIN task : task[i].st = "consumed" THEN "finalize"
             ELSE IF shutdown THEN "finalize"
             ELSE "drain_await"
    /\ UNCHANGED <<run, runs, shutdown, pending_pages, image_paths, task, results,
                   output_file, wo, cacheVars, progVars, bucketVars, unitVars>>

\* "result = await coro" returns the result of a finished task, and the
\* result is handled up to its first file write.
PdfAsyncDrainAwait(i) ==
    /\ pc = "drain_await"
    /\ run.entry = "process_pdf_async"
    /\ i \in DOMAIN task
    /\ task[i].st = "done"
    /\ task' = [task EXCEPT ![i].st = "consumed"]
    /\ CASE task[i].res.kind = "raised" ->
              /\ pc' = "raised"
              /\ UNCHANGED <<sv, state, ps>>
         [] task[i].res.kind = "success" ->
              /\ sv' = [pc |-> "open_temp", page |-> task[i].page,
                        text |-> task[i].res.text]
              /\ pc' = "cache_save"
              /\ UNCHANGED <<state, ps>>
         [] task[i].res.kind = "failure" ->
              /\ state' = mark_failed(state, task[i].page)
              /\ ps' = "open"
              /\ pc' = "persist"
              /\ UNCHANGED sv
         [] OTHER ->
              /\ ps' = "open"
              /\ pc' = "persist"
              /\ UNCHANGED <<sv, state>>
    /\ UNCHANGED <<run, runs, shutdown, pending_pages, image_paths, results,
                   output_file, wo, files, committed, progress_file, last_saved,
                   bucketVars, unitVars>>

\* cache.save returned: the page is recorded and marked completed, and the
\* snapshot save starts.
PdfAsyncCached ==
    /\ pc = "cache_save"
    /\ sv.pc = "returned"
    /\ results' = Merge(results, [q \in {sv.page} |-> sv.text])
    /\ state' = mark_completed(state, sv.page)
    /\ sv' = SaveIdle
    /\ ps' = "open"
    /\ pc' = "persist"
    /\ UNCHANGED <<run, runs, shutdown, pending_pages, image_paths, task,
                   output_file, wo, files, committed, progress_file, last_saved,
                   bucketVars, unitVars>>

\* The mutant: the failure of cache.save is swallowed and the page marked.
PdfAsyncCacheRaised_marked ==
    /\ pc = "cache_save"
    /\ sv.pc = "raised"
    /\ state' = mark_completed(state, sv.page)
    /\ sv' = SaveIdle
    /\ ps' = "open"
    /\ pc' = "persist"
    /\ UNCHANGED <<run, runs, shutdown, pending_pages, image_paths, task, results,
                   output_file, wo, files, committed, progress_file, last_saved,
                   bucketVars, unitVars>>

\* cache.save raised: the exception leaves process_pdf_async.
PdfAsyncCacheRaised ==
    /\ pc = "cache_save"
    /\ sv.pc = "raised"
    /\ pc' = "raised"
    /\ UNCHANGED <<run, runs, shutdown, pending_pages, image_paths, task, results,
                   output_file, wo, cacheVars, progVars, bucketVars, unitVars>>

\* state.save returned: on to the next turn of the loop.
Persisted ==
    /\ pc = "persist"
    /\ ps = "returned"
    /\ ps' = "idle"
    /\ pc' = CASE run.entry = "process_pdf" -> "sync_loop"
              [] run.entry = "AsyncOCRProcessor.process_pdf" -> "async_drain"
              [] OTHER -> "drain_check"
    /\ UNCHANGED <<run, runs, shutdown, pending_pages, image_paths, task, results,
                   output_file, wo, cacheVars, state, progress_file, last_saved,
                   bucketVars, unitVars>>

\* _finalize: nothing is written when the cache is empty; else the cached
\* results go to _write_output.
_finalize ==
    /\ pc = "finalize"
    /\ IF DOMAIN OCRCache_all_results = {}
       THEN /\ pc' = "returned"
            /\ UNCHANGED wo
       ELSE /\ pc' = "write_output"
            /\ wo' = [pc |-> "begin", all |-> OCRCache_all_results]
    /\ UNCHANGED <<run, runs, shutdown, pending_pages, image_paths, task, results,
                   output_file, cacheVars, progVars, bucketVars, unitVars>>

\* _write_output returned, and with it the entry point.
WriteOutputReturned ==
    /\ pc = "write_output"
    /\ wo.pc = "returned"
    /\ pc' = "returned"
    /\ UNCHANGED <<run, runs, shutdown, pending_pages, image_paths, task, results,
                   output_file, wo, cacheVars, progVars, bucketVars, unitVars>>

\* The mutant: a second signal clears the flag.
ShutdownRequest_toggle ==
    /\ run.entry \in {"process_pdf_async", "AsyncOCRProcessor.process_pdf"}
    /\ pc \in {"convert", "drain_check", "drain_await", "cache_save", "persist",
              "async_drain"}
    /\ shutdown' = ~shutdown
    /\ UNCHANGED <<pc, run, runs, pending_pages, image_paths, task, results,
                   output_file, wo, cacheVars, progVars, bucketVars, unitVars>>

\* SIGINT or SIGTERM while the handlers of process_pdf_async are installed;
\* request_shutdown() during AsyncOCRProcessor.process_pdf.
ShutdownRequest ==
    /\ run.entry \in {"process_pdf_async", "AsyncOCRProcessor.process_pdf"}
    /\ pc \in {"convert", "drain_check", "drain_await", "cache_save", "persist",
              "async_drain"}
    /\ ~shutdown
    /\ shutdown' = TRUE
    /\ UNCHANGED <<pc, run, runs, pending_pages, image_paths, task, results,
                   output_file, wo, cacheVars, progVars, bucketVars, unitVars>>

\* The process is killed: its memory is gone, the files stay as they are.
Kill ==
    /\ ~Stopped
    /\ pc' = "killed"
    /\ run' = NoRun
    /\ state' = ProgressState
    /\ shutdown' = FALSE
    /\ pending_pages' = <<>>
    /\ image_paths' = {}
    /\ task' = <<>>
    /\ results' = EmptyMap
    /\ sv' = SaveIdle
    /\ ps' = "idle"
    /\ wo' = WoIdle
    /\ UNCHANGED <<runs, files, committed, progress_file, last_saved, output_file,
                   bucketVars, unitVars>>

(***************************************************************************)
(* MultiBackendProcessor.process_pdf (multi_processor.py) and              *)
(* AsyncOCRProcessor.process_pdf (async_processor.py).                     *)
(***************************************************************************)
\* From the call to the first page: the snapshot is loaded (resume), the
\* pending pages are computed, and the call takes its dry-run or
\* nothing-pending exit, neither of which writes the output artifact.
ProcessPdfStart(entry, first_pc) ==
    /\ Stopped
    /\ runs < MaxRuns
    /\ runs' = runs + 1
    /\ \E pages \in RequestLists, resume \in BOOLEAN, dry_run \in BOOLEAN :
         LET snapshot == IF resume THEN ProgressState_load ELSE None
             st0 == IF snapshot.exists THEN snapshot.data ELSE ProgressState
             pending == get_pending_pages(st0, pages)
         IN  /\ run' = [entry |-> entry, pages |-> pages,
                        resume |-> resume, dry_run |-> dry_run,
                        cached |-> {}, snapshot |-> snapshot]
             /\ state' = st0
             /\ pending_pages' = pending
             /\ pc' = IF dry_run \/ pending = <<>> THEN "returned" ELSE first_pc
             /\ task' = IF entry = "process_pdf" /\ ~dry_run
                        THEN [i \in 1..Len(pending) |-> NewTask(pending[i])]
                        ELSE <<>>
    /\ shutdown' = FALSE
    /\ image_paths' = {}
    /\ results' = EmptyMap
    /\ sv' = SaveIdle
    /\ ps' = "idle"
    /\ wo' = WoIdle
    /\ UNCHANGED <<files, committed, progress_file, last_saved, output_file, bucketVars, unitVars>>

PdfSyncStart == ProcessPdfStart("process_pdf", "sync_loop")
AsyncPdfStart == ProcessPdfStart("AsyncOCRProcessor.process_pdf", "convert")

\* One turn of "for page_num in pending_pages", up to its state.save: the
\* page has no image (marked failed, "continue" skips the save), the backend
\* succeeds, the backend fails or raises an Exception, or KeyboardInterrupt
\* arrives.  The turns are the entries of task, taken in order.
PdfSyncPage ==
    /\ pc = "sync_loop"
    /\ run.entry = "process_pdf"
    /\ \E i \in DOMAIN task :
         /\ task[i].st = "new"
         /\ \A j \in 1..(i - 1) : task[j].st # "new"
         /\ task' = [task EXCEPT ![i].st = "consumed"]
         /\ \/ /\ state' = mark_failed(state, task[i].page)
               /\ UNCHANGED <<pc, ps, results>>
            \/ \E t \in Texts :
               /\ results' = Merge(results, [q \in {task[i].page} |-> t])
               /\ state' = mark_completed(state, task[i].page)
               /\ ps' = "open"
               /\ pc' = "persist"
            \/ /\ state' = mark_failed(state, task[i].page)
               /\ ps' = "open"
               /\ pc' = "persist"
               /\ UNCHANGED results
            \/ /\ ps' = "open"
               /\ pc' = "interrupt_save"
               /\ UNCHANGED <<state, results>>
    /\ UNCHANGED <<run, runs, shutdown, pending_pages, image_paths, output_file, wo,
                   cacheVars, progress_file, last_saved, bucketVars, unitVars>>

\* The loop is over: _write_output(results).
PdfSyncLoopEnd ==
    /\ pc = "sync_loop"
    /\ run.entry = "process_pdf"
    /\ \A i \in DOMAIN task : task[i].st # "new"
    /\ wo' = [pc |-> "begin", all |-> results]
    /\ pc' = "write_output"
    /\ UNCHANGED <<run, runs, shutdown, pending_pages, image_paths, task, results,
                   output_file, cacheVars, progVars, bucketVars, unitVars>>

\* The save of the KeyboardInterrupt or CancelledError handler returned:
\* the exception is raised again.
InterruptSaved ==
    /\ pc = "interrupt_save"
    /\ ps = "returned"
    /\ ps' = "idle"
    /\ pc' = "raised"
    /\ UNCHANGED <<run, runs, shutdown, pending_pages, image_paths, task, results,
                   output_file, wo, cacheVars, state, progress_file, last_saved,
                   bucketVars, unitVars>>

\* _batch_convert_images: each pending page gets an image or none; a task is
\* created for each pending page that has an image.
AsyncPdfConvert ==
    /\ pc = "convert"
    /\ run.entry = "AsyncOCRProcessor.process_pdf"
    /\ \E imgs \in SUBSET Range(pending_pages) :
         /\ image_paths' = imgs
         /\ LET with_image == SelectSeq(pending_pages, LAMBDA p : p \in imgs)
            IN  task' = [i \in 1..Len(with_image) |-> NewTask(with_image[i])]
    /\ pc' = "async_drain"
    /\ UNCHANGED <<run, runs, shutdown, pending_pages, results, output_file, wo,
                   cacheVars, progVars, bucketVars, unitVars>>

\* _process_single_page, the head of an attempt: the shutdown outcome if
\* shutdown is requested; else the task waits for its rate-limiter token
\* and for the semaphore.
ProcessSinglePageStart(i) ==
    /\ pc = "async_drain"
    /\ i \in DOMAIN task
    /\ task[i].st = "new"
    /\ task' = [task EXCEPT ![i] =
                  IF shutdown THEN Finished(@, "shutdown", <<>>)
                  ELSE [@ EXCEPT !.st = "waiting"]]
    /\ UNCHANGED <<pc, run, runs, shutdown, pending_pages, image_paths, results,
                   output_file, wo, cacheVars, progVars, bucketVars, unitVars>>

\* "async with self._semaphore": the backend call starts.
ProcessSinglePageCall(i) ==
    /\ pc = "async_drain"
    /\ i \in DOMAIN task
    /\ task[i].st = "waiting"
    /\ SemaphoreFree
    /\ task' = [task EXCEPT ![i].st = "running"]
    /\ UNCHANGED <<pc, run, runs, shutdown, pending_pages, image_paths, results,
                   output_file, wo, cacheVars, progVars, bucketVars, unitVars>>

\* The attempt is over: the API call returned a text (stripped), or an
\* exception was raised; then the next attempt follows, after the backoff
\* sleep and outside the semaphore, or the task fails after max_retries
\* attempts.
ProcessSinglePageFinish(i) ==
    /\ pc = "async_drain"
    /\ i \in DOMAIN task
    /\ task[i].st = "running"
    /\ \/ \E t \in Texts : task' = [task EXCEPT ![i] = Finished(@, "success", Strip(t))]
       \/ task' = [task EXCEPT ![i] =
                     IF @.attempt + 1 < max_retries
                     THEN [@ EXCEPT !.st = "new", !.attempt = @ + 1]
                     ELSE Finished(@, "failure", <<>>)]
    /\ UNCHANGED <<pc, run, runs, shutdown, pending_pages, image_paths, results,
                   output_file, wo, cacheVars, progVars, bucketVars, unitVars>>

\* One turn of "for coro in asyncio.as_completed(tasks)", up to its
\* state.save: a success is recorded and marked completed, any other result
\* is marked failed.
AsyncPdfDrain(i) ==
    /\ pc = "async_drain"
    /\ i \in DOMAIN task
    /\ task[i].st = "done"
    /\ task' = [task EXCEPT ![i].st = "consumed"]
    /\ IF task[i].res.kind = "success"
       THEN /\ results' = Merge(results, [q \in {task[i].page} |-> task[i].res.text])
            /\ state' = mark_completed(state, task[i].page)
       ELSE /\ state' = mark_failed(state, task[i].page)
            /\ UNCHANGED results
    /\ ps' = "open"
    /\ pc' = "persist"
    /\ UNCHANGED <<run, runs, shutdown, pending_pages, image_paths, output_file, wo,
                   cacheVars, progress_file, last_saved, bucketVars, unitVars>>

\* Every task has been awaited: _write_output(results).
AsyncPdfDrainEnd ==
    /\ pc = "async_drain"
    /\ \A i \in DOMAIN task : task[i].st = "consumed"
    /\ wo' = [pc |-> "begin", all |-> results]
    /\ pc' = "write_output"
    /\ UNCHANGED <<run, runs, shutdown, pending_pages, image_paths, task, results,
                   output_file, cacheVars, progVars, bucketVars, unitVars>>

\* The call is cancelled at an await: in the conversion the CancelledError
\* leaves the call at once, in the drain loop the handler saves the state
\* and raises it again.
AsyncPdfCancelled ==
    /\ run.entry = "AsyncOCRProcessor.process_pdf"
    /\ pc \in {"convert", "async_drain"}
    /\ IF pc = "convert"
       THEN /\ pc' = "raised"
            /\ UNCHANGED ps
       ELSE /\ pc' = "interrupt_save"
            /\ ps' = "open"
    /\ UNCHANGED <<run, runs, shutdown, pending_pages, image_paths, task, results,
                   output_file, wo, cacheVars, state, progress_file, last_saved,
                   bucketVars, unitVars>>

(***************************************************************************)
(* MantraDetector.detect (backends/mantra_detector.py).  A text is a       *)
(* sequence of tokens; each token stands for one substring the detector's  *)
(* tables know, or for plain text ("x"); the bija "shri" is a substring of *)
(* the bija "shrim", as in the source's table.  Scores are in hundredths   *)
(* and the detection confidence in ten-thousandths.                        *)
(***************************************************************************)
BIJA_MANTRAS == {"om", "shri", "shrim"}
VERSE_MARKERS == {"dd"}
NumberedVerse == "dd1dd"     \* one match of VERSE_NUMBER_PATTERN: two markers around a number
SECTION_INDICATORS == {"mantra", "yantra"}
DEITY_NAMES == {"shiva"}
YANTRA_TERMS == {"yantra", "chakra"}
Tokens == BIJA_MANTRAS \cup VERSE_MARKERS \cup {NumberedVerse}
              \cup SECTION_INDICATORS \cup DEITY_NAMES \cup YANTRA_TERMS \cup {"x"}

\* the table entries that occur in a token
Entries(tok) == IF tok = "shrim" THEN {"shri", "shrim"} ELSE {tok}

\* str.count for one table entry
Count(text, entry) ==
    Cardinality({i \in 1..Len(text) : entry \in Entries(text[i])})

RECURSIVE CountAll(_, _)
CountAll(text, toks) ==
    IF toks = {} THEN 0
    ELSE LET t == CHOOSE t \in toks : TRUE
         IN  Count(text, t) + CountAll(text, toks \ {t})

\* how many entries of a table occur in the text
Present(text, toks) == Cardinality({t \in toks : Count(text, t) > 0})

Max(a, b) == IF a > b THEN a ELSE b

\* The mutant: the lenient rule in both modes.
contains_mantra_lenient(strict_mode, bija_count, numbered_verses, section_count, confidence) ==
    \/ bija_count >= 2
    \/ (numbered_verses > 0 /\ section_count > 0)
    \/ confidence > 8000

\* The mutant: the lenient rule without the score.
contains_mantra_no_score(strict_mode, bija_count, numbered_verses, section_count, confidence) ==
    IF strict_mode
    THEN bija_count > 0 \/ numbered_verses > 0 \/ section_count >= 2
    ELSE \/ bija_count >= 2
         \/ (numbered_verses > 0 /\ section_count > 0)

contains_mantra(strict_mode, bija_count, numbered_verses, section_count, confidence) ==
    IF strict_mode
    THEN bija_count > 0 \/ numbered_verses > 0 \/ section_count >= 2
    ELSE \/ bija_count >= 2
         \/ (numbered_verses > 0 /\ section_count > 0)
         \/ confidence > 8000

\* The mutant: one bija mantra and one section indicator are enough.
recommendation_one_section(bija_count, section_count, flagged) ==
    IF bija_count >= 3 \/ (bija_count > 0 /\ section_count >= 1)
    THEN "high_priority"
    ELSE IF flagged THEN "verify" ELSE "skip"

recommendation(bija_count, section_count, flagged) ==
    IF bija_count >= 3 \/ (bija_count > 0 /\ section_count >= 2)
    THEN "high_priority"
    ELSE IF flagged THEN "verify" ELSE "skip"

detect(text, strict_mode) ==
    IF text = <<>>
    THEN [contains_mantra |-> FALSE, confidence |-> 0, mantra_count |-> 0,
          recommendation |-> "skip"]
    ELSE
    LET bija_count == CountAll(text, BIJA_MANTRAS)
        numbered_verses == Count(text, NumberedVerse)
        verse_marker_count == CountAll(text, VERSE_MARKERS) + 2 * numbered_verses
        section_count == Present(text, SECTION_INDICATORS)
        deity_count == Present(text, DEITY_NAMES)
        yantra_count == Present(text, YANTRA_TERMS)
        scores == (IF bija_count > 0 THEN {90} ELSE {})
                  \cup (IF verse_marker_count > 0 THEN {70} ELSE {})
                  \cup (IF numbered_verses > 0 THEN {80} ELSE {})
                  \cup (IF section_count > 0
                        THEN {Min(85, 50 + section_count * 10)} ELSE {})
                  \cup (IF deity_count > 0 THEN {60} ELSE {})
                  \cup (IF yantra_count > 0 THEN {75} ELSE {})
        len_scores == Present(text, BIJA_MANTRAS)
                      + (IF verse_marker_count > 0 THEN 1 ELSE 0)
                      + (IF numbered_verses > 0 THEN 1 ELSE 0)
                      + (IF section_count > 0 THEN 1 ELSE 0)
                      + (IF deity_count > 0 THEN 1 ELSE 0)
                      + (IF yantra_count > 0 THEN 1 ELSE 0)
        max_score == CHOOSE sc \in scores : \A o \in scores : o <= sc
        confidence == IF scores = {} THEN 0
                      ELSE Min(10000, max_score * (100 + Min(len_scores - 1, 5) * 5))
        flagged == contains_mantra(strict_mode, bija_count, numbered_verses,
                                   section_count, confidence)
    IN  [contains_mantra |-> flagged, confidence |-> confidence,
         mantra_count |-> bija_count + numbered_verses,
         recommendation |-> recommendation(bija_count, section_count, flagged)]

\* One call of detect on its own: md holds the text, the mode of the
\* detector and the result.
MaxDetectTokens == 3

DetectTexts == UNION {[1..n -> Tokens] : n \in 0..MaxDetectTokens}

MdIdle ==
    [pc |-> "idle", text |-> <<>>, strict_mode |-> TRUE, result |-> detect(<<>>, TRUE)]

\* MantraDetector(strict_mode).detect(text)
DetectCall ==
    /\ md.pc = "idle"
    /\ \E text \in DetectTexts, strict_mode \in BOOLEAN :
          md' = [pc |-> "returned", text |-> text, strict_mode |-> strict_mode,
                 result |-> detect(text, strict_mode)]
    /\ UNCHANGED <<cacheVars, progVars, bucketVars, pipeVars, hb, rl, mk, wh, hs>>

\* the caller has taken the result
DetectReturned ==
    /\ md.pc = "returned"
    /\ md' = MdIdle
    /\ UNCHANGED <<cacheVars, progVars, bucketVars, pipeVars, hb, rl, mk, wh, hs>>

(***************************************************************************)
(* HybridBackend (backends/hybrid_backend.py).  hb is one backend object   *)
(* and the process_image call it is serving; OCR confidences and the       *)
(* threshold are in hundredths.                                            *)
(***************************************************************************)
MaxTokens == 2

HybridTexts == UNION {[1..n -> Tokens] : n \in 0..MaxTokens}
Confidences == {50, 85, 95}
Thresholds == {85, 90}

OCRResult(success, text, confidence, backend_used) ==
    [success |-> success, text |-> text, confidence |-> confidence,
     backend_used |-> backend_used]

NoOCRResult == OCRResult(FALSE, <<>>, 0, "")

\* what the primary backend can return for a page
PrimaryResults ==
    {OCRResult(TRUE, t, c, "easyocr") : t \in HybridTexts, c \in Confidences}
        \cup {OCRResult(FALSE, <<>>, 0, "easyocr")}

\* what the escalation backend can return for a page
GeminiResults ==
    {OCRResult(TRUE, <<t>>, 95, "gemini") : t \in {"om", "x"}}
        \cup {OCRResult(FALSE, <<>>, 0, "gemini")}

HybridBackend(confidence_threshold, verify_mantras) ==
    [initialized |-> FALSE,
     confidence_threshold |-> confidence_threshold,
     verify_mantras |-> verify_mantras,
     pc |-> "idle", primary |-> NoOCRResult, needs_gemini |-> FALSE,
     gemini |-> NoOCRResult, gemini_calls |-> 0, detect_calls |-> 0,
     result |-> NoOCRResult]

\* the backend's own detector: MantraDetector(strict_mode=verify_mantras)
HybridDetect(text) == detect(text, hb.verify_mantras)

needs_gemini_confidence_only(primary_result) ==
    primary_result.confidence < hb.confidence_threshold

needs_gemini_always(primary_result) == TRUE

needs_gemini(primary_result) ==
    \/ primary_result.confidence < hb.confidence_threshold
    \/ /\ hb.verify_mantras
       /\ HybridDetect(primary_result.text).recommendation
              \in {"verify", "high_priority"}

fallback_result_unlabelled(gemini_result) == gemini_result

fallback_result(gemini_result) ==
    [gemini_result EXCEPT !.backend_used = "hybrid:gemini-fallback"]

escalation_result_gemini(primary_result, gemini_result) ==
    [gemini_result EXCEPT !.backend_used = "hybrid:easyocr+gemini"]

escalation_result(primary_result, gemini_result) ==
    IF gemini_result.success
    THEN [gemini_result EXCEPT !.backend_used = "hybrid:easyocr+gemini"]
    ELSE [primary_result EXCEPT !.backend_used = "hybrid:easyocr-fallback"]

primary_only_result(primary_result) ==
    [primary_result EXCEPT !.backend_used = "hybrid:easyocr"]

HbIdle == hb.pc = "idle"

\* HybridBackend(...) followed by a successful initialize()
HybridInitialize ==
    /\ HbIdle
    /\ \E th \in Thresholds, vm \in BOOLEAN :
          hb' = [HybridBackend(th, vm) EXCEPT !.initialized = TRUE]
    /\ UNCHANGED <<cacheVars, progVars, bucketVars, pipeVars, rl, mk, md, wh, hs>>

\* process_image on a backend that was never initialized
ProcessImageUninitialized ==
    /\ HbIdle
    /\ ~hb.initialized
    /\ hb' = [hb EXCEPT !.pc = "returned", !.primary = NoOCRResult,
                        !.needs_gemini = FALSE, !.gemini = NoOCRResult,
                        !.gemini_calls = 0, !.detect_calls = 0,
                        !.result = OCRResult(FALSE, <<>>, 100, "hybrid")]
    /\ UNCHANGED <<cacheVars, progVars, bucketVars, pipeVars, rl, mk, md, wh, hs>>

\* process_image up to the call of the escalation backend, or to the return
\* of the primary's result
ProcessImagePrimary ==
    /\ HbIdle
    /\ hb.initialized
    /\ \E primary_result \in PrimaryResults :
          IF ~primary_result.success
          THEN hb' = [hb EXCEPT !.pc = "fallback", !.primary = primary_result,
                                !.needs_gemini = FALSE,
                                !.gemini = NoOCRResult, !.gemini_calls = 0,
                                !.detect_calls = 0, !.result = NoOCRResult]
          ELSE hb' = [hb EXCEPT
                        !.pc = IF needs_gemini(primary_result)
                               THEN "escalate" ELSE "returned",
                        !.primary = primary_result,
                        !.needs_gemini = needs_gemini(primary_result),
                        !.gemini = NoOCRResult,
                        !.gemini_calls = 0,
                        !.detect_calls = IF hb.verify_mantras THEN 1 ELSE 0,
                        !.result = IF needs_gemini(primary_result)
                                   THEN NoOCRResult
                                   ELSE primary_only_result(primary_result)]
    /\ UNCHANGED <<cacheVars, progVars, bucketVars, pipeVars, rl, mk, md, wh, hs>>

\* the caller has taken the result; the backend is ready for the next page
ProcessImageReturned ==
    /\ hb.pc = "returned"
    /\ hb' = [HybridBackend(hb.confidence_threshold, hb.verify_mantras)
                  EXCEPT !.initialized = hb.initialized]
    /\ UNCHANGED <<cacheVars, progVars, bucketVars, pipeVars, rl, mk, md, wh, hs>>

\* the escalation backend returns after a failed primary
ProcessImageFallback ==
    /\ hb.pc = "fallback"
    /\ \E gemini_result \in GeminiResults :
          hb' = [hb EXCEPT !.pc = "returned",
                           !.gemini = gemini_result,
                           !.gemini_calls = @ + 1,
                           !.result = fallback_result(gemini_result)]
    /\ UNCHANGED <<cacheVars, progVars, bucketVars, pipeVars, rl, mk, md, wh, hs>>

\* the escalation backend returns after a successful primary
ProcessImageEscalated ==
    /\ hb.pc = "escalate"
    /\ \E gemini_result \in GeminiResults :
          hb' = [hb EXCEPT !.pc = "returned",
                           !.gemini = gemini_result,
                           !.gemini_calls = @ + 1,
                           !.result = escalation_result(hb.primary, gemini_result)]
    /\ UNCHANGED <<cacheVars, progVars, bucketVars, pipeVars, rl, mk, md, wh, hs>>


(***************************************************************************)
(* HybridBackend._stats (backends/hybrid_backend.py).  hs is the counters  *)
(* of one initialized backend, with the configuration of hb, and the       *)
(* threads that run process_image on it: process_pdf_async hands every     *)
(* page to loop.run_in_executor.  A "+= 1" on a counter is a load of the   *)
(* counter followed by a store of the sum.  The counters                   *)
(* gemini_for_low_confidence, gemini_for_mantras and total_duration are    *)
(* left out.                                                               *)
(***************************************************************************)
NumThreads == 2        \* executor threads running process_image
MaxStatsCalls == 3     \* process_image calls in one behaviour

Threads == 1..NumThreads

_stats == [total_pages |-> 0, primary_only |-> 0, gemini_verified |-> 0]

HsThreadIdle == [pc |-> "idle", key |-> "", reg |-> 0, backend_used |-> "",
                 gemini_success |-> FALSE]

\* history: calls, the process_image calls made; verified, the calls that
\* returned the result of a successful escalation backend call; degraded,
\* the calls that returned the primary's result after a failed escalation
HsInit ==
    [stats |-> _stats, thread |-> [t \in Threads |-> HsThreadIdle],
     calls |-> 0, verified |-> 0, degraded |-> 0]

HsAllIdle == \A t \in Threads : hs.thread[t].pc = "idle"

\* the state of a thread that has entered process_image:
\* self._stats["total_pages"] += 1 is its next statement
StatsEntered(t) ==
    [hs EXCEPT !.calls = @ + 1,
               !.thread[t] = [HsThreadIdle EXCEPT !.pc = "load",
                                                  !.key = "total_pages"]]

\* process_image called while no other call is running
StatsCallSequential(t) ==
    /\ HsAllIdle
    /\ hs.calls < MaxStatsCalls
    /\ hs' = StatsEntered(t)
    /\ UNCHANGED <<cacheVars, progVars, bucketVars, pipeVars, hb, rl, mk, md, wh>>

\* process_image called from an executor thread, whatever the others do
StatsCallConcurrent(t) ==
    /\ hs.thread[t].pc = "idle"
    /\ hs.calls < MaxStatsCalls
    /\ hs' = StatsEntered(t)
    /\ UNCHANGED <<cacheVars, progVars, bucketVars, pipeVars, hb, rl, mk, md, wh>>

\* the load of self._stats[key]
StatsLoad(t) ==
    /\ hs.thread[t].pc = "load"
    /\ hs' = [hs EXCEPT !.thread[t].pc = "store",
                        !.thread[t].reg = hs.stats[hs.thread[t].key]]
    /\ UNCHANGED <<cacheVars, progVars, bucketVars, pipeVars, hb, rl, mk, md, wh>>

\* the store of the sum into self._stats[key]
StatsStore(t) ==
    /\ hs.thread[t].pc = "store"
    /\ hs' = [hs EXCEPT !.stats[hs.thread[t].key] = hs.thread[t].reg + 1,
                        !.thread[t].pc = IF hs.thread[t].key = "total_pages"
                                         THEN "backends" ELSE "returned"]
    /\ UNCHANGED <<cacheVars, progVars, bucketVars, pipeVars, hb, rl, mk, md, wh>>

\* the primary results tried here: texts of one token reach every branch
StatsPrimaryResults == {r \in PrimaryResults : Len(r.text) <= 1}

\* the backend calls of process_image and the branch they lead to, up to
\* the counter the branch increments
StatsBackends(t) ==
    /\ hs.thread[t].pc = "backends"
    /\ \E primary_result \in StatsPrimaryResults, gemini_result \in GeminiResults :
         LET escalated == ~primary_result.success \/ needs_gemini(primary_result)
             result == IF ~primary_result.success
                       THEN fallback_result(gemini_result)
                       ELSE IF needs_gemini(primary_result)
                       THEN escalation_result(primary_result, gemini_result)
                       ELSE primary_only_result(primary_result)
             key == IF ~primary_result.success THEN "gemini_verified"
                    ELSE IF ~needs_gemini(primary_result) THEN "primary_only"
                    ELSE IF gemini_result.success THEN "gemini_verified"
                    ELSE ""
         IN  hs' = [hs EXCEPT
                      !.thread[t] = [pc |-> IF key = "" THEN "returned" ELSE "load",
                                     key |-> key, reg |-> 0,
                                     backend_used |-> result.backend_used,
                                     gemini_success |->
                                         escalated /\ gemini_result.success]]
    /\ UNCHANGED <<cacheVars, progVars, bucketVars, pipeVars, hb, rl, mk, md, wh>>

\* process_image returns its result to the caller
StatsReturn(t) ==
    /\ hs.thread[t].pc = "returned"
    /\ hs' = [hs EXCEPT
                !.thread[t] = HsThreadIdle,
                !.verified = IF hs.thread[t].gemini_success THEN @ + 1 ELSE @,
                !.degraded = IF hs.thread[t].backend_used = "hybrid:easyocr-fallback"
                             THEN @ + 1 ELSE @]
    /\ UNCHANGED <<cacheVars, progVars, bucketVars, pipeVars, hb, rl, mk, md, wh>>

\* get_stats: the counters
get_stats == hs.stats

(***************************************************************************)
(* The retry loops: GeminiBackend.process_image (backends/gemini_backend.py)*)
(* AsyncOCRProcessor._process_single_page (async_processor.py) and         *)
(* OCRProcessor._process_single_page (processor.py).  A response text is a *)
(* sequence of units: "a" an alphanumeric character, "." another printing  *)
(* character, " " whitespace, "E" one of ERROR_PATTERNS.  rl is one call   *)
(* of one of the loops.                                                    *)
(***************************************************************************)
MaxResponseLen == 3
MIN_VALID_LENGTH == 2      \* in units
ErrorWindow == 2           \* text_lower[:300], in units

RetryLoops == {"GeminiBackend.process_image",
               "AsyncOCRProcessor._process_single_page",
               "OCRProcessor._process_single_page"}
ResponseUnits == {"a", ".", " ", "E"}
Responses == UNION {[1..n -> ResponseUnits] : n \in 0..MaxResponseLen}
ErrorClasses == {"quota", "other"}
BaseDelays == {1, 2}

RECURSIVE Pow(_, _)
Pow(b, e) == IF e = 0 THEN 1 ELSE b * Pow(b, e - 1)

_validate_response(text) ==
    /\ text # <<>>
    /\ Len(Strip(text)) >= MIN_VALID_LENGTH
    /\ \A i \in 1..Min(Len(text), ErrorWindow) : text[i] # "E"
    /\ \E i \in 1..Len(Strip(text)) : Strip(text)[i] \in {"a", "E"}

\* the loops that validate a response before they accept it
Validates(loop) == loop = "GeminiBackend.process_image"

\* the sleep after failed attempt number attempt, 0 for none
backoff_delay(loop, base, attempt, error) ==
    IF error = "quota"
    THEN IF loop = "AsyncOCRProcessor._process_single_page"
         THEN base * Pow(3, attempt)
         ELSE base * Pow(2, attempt) * 2
    ELSE IF attempt < max_retries - 1
         THEN base * Pow(2, attempt)
         ELSE 0

NoRetryResult == [success |-> FALSE, text |-> <<>>, error |-> ""]

RlIdle ==
    [pc |-> "idle", loop |-> "", base |-> 0, attempt |-> 0, calls |-> 0,
     last |-> "", delays |-> <<>>, result |-> NoRetryResult]

AfterFailedAttempt_once_more(r) ==
    IF r.attempt < max_retries
    THEN [r EXCEPT !.attempt = @ + 1]
    ELSE [r EXCEPT !.pc = "returned",
                   !.result = [success |-> FALSE, text |-> <<>>,
                               error |-> "Failed after max_retries attempts"]]

\* what the loop does next after a failed attempt: the next attempt, or the
\* terminal failure once range(max_retries) is used up
AfterFailedAttempt(r) ==
    IF r.attempt + 1 < max_retries
    THEN [r EXCEPT !.attempt = @ + 1]
    ELSE [r EXCEPT !.pc = "returned",
                   !.result = [success |-> FALSE, text |-> <<>>,
                               error |-> "Failed after max_retries attempts"]]

\* a call of one of the loops begins (the backend is initialized)
RetryLoopCall ==
    /\ rl.pc = "idle"
    /\ \E loop \in RetryLoops, base \in BaseDelays :
          /\ loop = "GeminiBackend.process_image" => base = 2
          /\ rl' = [RlIdle EXCEPT !.pc = "attempt", !.loop = loop, !.base = base]
    /\ UNCHANGED <<cacheVars, progVars, bucketVars, pipeVars, hb, mk, md, wh, hs>>

\* the head of an attempt of _process_single_page finds self._shutdown set
RetryLoopShutdown ==
    /\ rl.pc = "attempt"
    /\ rl.loop = "AsyncOCRProcessor._process_single_page"
    /\ rl' = [rl EXCEPT !.pc = "returned", !.last = "shutdown",
                        !.result = [success |-> FALSE, text |-> <<>>,
                                    error |-> "Shutdown requested"]]
    /\ UNCHANGED <<cacheVars, progVars, bucketVars, pipeVars, hb, mk, md, wh, hs>>

\* an attempt whose backend call returns a response
RetryLoopResponse ==
    /\ rl.pc = "attempt"
    /\ \E response \in Responses :
         LET text == Strip(response)
             called == [rl EXCEPT !.calls = @ + 1]
         IN  IF Validates(rl.loop) /\ ~_validate_response(text)
             THEN rl' = IF rl.attempt < max_retries - 1
                        THEN [called EXCEPT !.attempt = @ + 1, !.last = "rejected"]
                        ELSE [called EXCEPT !.pc = "returned", !.last = "rejected",
                                            !.result = [success |-> FALSE,
                                                        text |-> <<>>,
                                                        error |-> "Validation failed"]]
             ELSE rl' = [called EXCEPT !.pc = "returned", !.last = "accepted",
                                       !.result = [success |-> TRUE, text |-> text,
                                                   error |-> ""]]
    /\ UNCHANGED <<cacheVars, progVars, bucketVars, pipeVars, hb, mk, md, wh, hs>>

\* an attempt whose backend call raises: the except branch with its sleep
RetryLoopException ==
    /\ rl.pc = "attempt"
    /\ \E error \in ErrorClasses :
         LET delay == backoff_delay(rl.loop, rl.base, rl.attempt, error)
             slept == [rl EXCEPT
                         !.calls = @ + 1,
                         !.last = error,
                         !.delays = IF delay > 0
                                    THEN Append(@, [attempt |-> rl.attempt,
                                                    error |-> error,
                                                    delay |-> delay])
                                    ELSE @]
         IN  rl' = AfterFailedAttempt(slept)
    /\ UNCHANGED <<cacheVars, progVars, bucketVars, pipeVars, hb, mk, md, wh, hs>>

\* the caller has taken the result
RetryLoopReturned ==
    /\ rl.pc = "returned"
    /\ rl' = RlIdle
    /\ UNCHANGED <<cacheVars, progVars, bucketVars, pipeVars, hb, mk, md, wh, hs>>


(***************************************************************************)
(* Initial states.                                                         *)
(***************************************************************************)
CacheInit ==
    /\ files = [p \in CachePaths |-> None]
    /\ sv = SaveIdle
    /\ committed = [p \in Pages |-> None]

ProgInit ==
    /\ state = ProgressState
    /\ progress_file = None
    /\ ps = "idle"
    /\ last_saved = None

\* TokenBucket.__init__
BucketInit ==
    /\ tokens = Scaled(Capacity)
    /\ last_update = 0
    /\ now = 0
    /\ lock = 0
    /\ caller = [c \in Callers |-> CallerIdle]
    /\ granted = 0

PipeInit ==
    /\ pc = "idle"
    /\ run = NoRun
    /\ runs = 0
    /\ shutdown = FALSE
    /\ pending_pages = <<>>
    /\ image_paths = {}
    /\ task = <<>>
    /\ results = EmptyMap
    /\ output_file = None
    /\ wo = WoIdle

NoMark == [op |-> "", page |-> 0, before |-> ProgressState]

UnitInit ==
    /\ hb = HybridBackend(85, TRUE)
    /\ rl = RlIdle
    /\ mk = NoMark
    /\ md = MdIdle
    /\ wh = NoWrite
    /\ hs = HsInit

Init == CacheInit /\ ProgInit /\ BucketInit /\ PipeInit /\ UnitInit

(***************************************************************************)
(* The cache alone: save calls for any page and text, the process killed   *)
(* at any point of a save.                                                 *)
(***************************************************************************)
CacheSaveCall ==
    /\ ~SaveRunning
    /\ \E p \in Pages, t \in Texts :
         sv' = [pc |-> "open_temp", page |-> p, text |-> t]
    /\ UNCHANGED <<files, committed, progVars, bucketVars, pipeVars, unitVars>>

\* The process is killed inside save: the call is gone, the files stay.
CacheKill ==
    /\ SaveRunning
    /\ sv' = [sv EXCEPT !.pc = "killed_" \o sv.pc]
    /\ UNCHANGED <<files, committed, progVars, bucketVars, pipeVars, unitVars>>

CacheNext ==
    \/ CacheSaveCall
    \/ SaveOpenTemp
    \/ SaveWriteTemp
    \/ SaveRename
    \/ SaveMeta
    \/ SaveFail
    \/ CacheKill

SpecCache == Init /\ [][CacheNext]_vars

(***************************************************************************)
(* The progress tracker alone: marks in any order, saves, the process      *)
(* killed at any point, and a new process loading the snapshot.            *)
(***************************************************************************)
ProgMarkCompleted ==
    /\ ~PsRunning
    /\ \E p \in Pages : state' = mark_completed(state, p)
    /\ UNCHANGED <<progress_file, ps, last_saved, cacheVars, bucketVars, pipeVars, unitVars>>

ProgMarkFailed ==
    /\ ~PsRunning
    /\ \E p \in Pages : state' = mark_failed(state, p)
    /\ UNCHANGED <<progress_file, ps, last_saved, cacheVars, bucketVars, pipeVars, unitVars>>

ProgSaveCall ==
    /\ ~PsRunning
    /\ ps' = "open"
    /\ UNCHANGED <<state, progress_file, last_saved, cacheVars, bucketVars, pipeVars, unitVars>>

\* The process is killed; the next one starts from what load returns.
ProgKillAndLoad ==
    /\ ps' = "loaded"
    /\ state' = IF ProgressState_load.exists
                THEN ProgressState_load.data ELSE ProgressState
    /\ UNCHANGED <<progress_file, last_saved, cacheVars, bucketVars, pipeVars, unitVars>>

ProgNext ==
    \/ ProgMarkCompleted
    \/ ProgMarkFailed
    \/ ProgSaveCall
    \/ ProgressSaveOpen
    \/ ProgressSaveWrite
    \/ ProgKillAndLoad

SpecProgress == Init /\ [][ProgNext]_vars

\* The marks alone, in any order and for any page.
MarkCompleted ==
    /\ \E p \in 1..NumMarkPages :
          /\ state' = mark_completed(state, p)
          /\ mk' = [op |-> "mark_completed", page |-> p, before |-> state]
    /\ UNCHANGED <<progress_file, ps, last_saved, cacheVars, bucketVars, pipeVars,
                   hb, rl, md, wh, hs>>

MarkFailed ==
    /\ \E p \in 1..NumMarkPages :
          /\ state' = mark_failed(state, p)
          /\ mk' = [op |-> "mark_failed", page |-> p, before |-> state]
    /\ UNCHANGED <<progress_file, ps, last_saved, cacheVars, bucketVars, pipeVars,
                   hb, rl, md, wh, hs>>

MarksNext ==
    \/ MarkCompleted
    \/ MarkFailed

SpecMarks == Init /\ [][MarksNext]_vars

(***************************************************************************)
(* The rate limiter alone: callers that call acquire at any time.          *)
(***************************************************************************)
BucketNext ==
    \/ \E c \in Callers : AcquireCall(c)
    \/ \E c \in Callers : AcquireLocked(c)
    \/ \E c \in Callers : AcquireWake(c)
    \/ \E c \in Callers : AcquireDone(c)
    \/ Tick

SpecBucket == Init /\ [][BucketNext]_vars

(***************************************************************************)
(* The pipeline: calls of the entry points one after the other, each       *)
(* running to its return, to an exception, or until the process is killed. *)
(***************************************************************************)
PipeNext ==
    \/ PdfAsyncStart
    \/ PdfAsyncConvert
    \/ \E i \in 1..NumPages : ProcessPageStart(i)
    \/ \E i \in 1..NumPages : ProcessPageFinish(i)
    \/ PdfAsyncDrainCheck
    \/ \E i \in 1..NumPages : PdfAsyncDrainAwait(i)
    \/ PdfAsyncCached
    \/ PdfAsyncCacheRaised
    \/ Persisted
    \/ _finalize
    \/ WriteOutputBegin
    \/ WriteOutputSection
    \/ WriteOutputReturned
    \/ SaveOpenTemp
    \/ SaveWriteTemp
    \/ SaveRename
    \/ SaveMeta
    \/ SaveFail
    \/ ProgressSaveOpen
    \/ ProgressSaveWrite
    \/ PdfSyncStart
    \/ PdfSyncPage
    \/ PdfSyncLoopEnd
    \/ InterruptSaved
    \/ AsyncPdfStart
    \/ AsyncPdfConvert
    \/ \E i \in 1..NumPages : ProcessSinglePageStart(i)
    \/ \E i \in 1..NumPages : ProcessSinglePageCall(i)
    \/ \E i \in 1..NumPages : ProcessSinglePageFinish(i)
    \/ \E i \in 1..NumPages : AsyncPdfDrain(i)
    \/ AsyncPdfDrainEnd
    \/ AsyncPdfCancelled
    \/ ShutdownRequest
    \/ Kill

SpecPipeline == Init /\ [][PipeNext]_vars

(***************************************************************************)
(* process_pdf_async alone: calls of it one after the other, each running  *)
(* to its return, to an exception, or until the process is killed.         *)
(***************************************************************************)
ResumeNext ==
    \/ PdfAsyncStart
    \/ PdfAsyncConvert
    \/ \E i \in 1..NumPages : ProcessPageStart(i)
    \/ \E i \in 1..NumPages : ProcessPageFinish(i)
    \/ PdfAsyncDrainCheck
    \/ \E i \in 1..NumPages : PdfAsyncDrainAwait(i)
    \/ PdfAsyncCached
    \/ PdfAsyncCacheRaised
    \/ Persisted
    \/ _finalize
    \/ WriteOutputBegin
    \/ WriteOutputSection
    \/ WriteOutputReturned
    \/ SaveOpenTemp
    \/ SaveWriteTemp
    \/ SaveRename
    \/ SaveMeta
    \/ SaveFail
    \/ ProgressSaveOpen
    \/ ProgressSaveWrite
    \/ ShutdownRequest
    \/ Kill

SpecResume == Init /\ [][ResumeNext]_vars

(***************************************************************************)
(* process_pdf_async called through the API with any page list.            *)
(***************************************************************************)
PdfAsyncStartAny == PdfAsyncCall(AnyRequestLists)

ApiNext ==
    \/ PdfAsyncStartAny
    \/ PdfAsyncConvert
    \/ \E i \in 1..MaxRequestLen : ProcessPageStart(i)
    \/ \E i \in 1..MaxRequestLen : ProcessPageFinish(i)
    \/ PdfAsyncDrainCheck
    \/ \E i \in 1..MaxRequestLen : PdfAsyncDrainAwait(i)
    \/ PdfAsyncCached
    \/ PdfAsyncCacheRaised
    \/ Persisted
    \/ _finalize
    \/ WriteOutputBegin
    \/ WriteOutputSection
    \/ WriteOutputReturned
    \/ SaveOpenTemp
    \/ SaveWriteTemp
    \/ SaveRename
    \/ SaveMeta
    \/ SaveFail
    \/ ProgressSaveOpen
    \/ ProgressSaveWrite
    \/ ShutdownRequest

SpecApi == Init /\ [][ApiNext]_vars

(***************************************************************************)
(* The hybrid backend on its own: backends are constructed and initialized *)
(* under every configuration and serve process_image calls.                *)
(***************************************************************************)
HybridNext ==
    \/ HybridInitialize
    \/ ProcessImageUninitialized
    \/ ProcessImagePrimary
    \/ ProcessImageFallback
    \/ ProcessImageEscalated
    \/ ProcessImageReturned

SpecHybrid == Init /\ [][HybridNext]_vars

(***************************************************************************)
(* The retry loops on their own: calls of each loop, every attempt ending  *)
(* in a response, in an exception of either class, or in a shutdown.       *)
(***************************************************************************)
RetryNext ==
    \/ RetryLoopCall
    \/ RetryLoopShutdown
    \/ RetryLoopResponse
    \/ RetryLoopException
    \/ RetryLoopReturned

SpecRetry == Init /\ [][RetryNext]_vars

\* every attempt ends: the backend call returns or raises
SpecRetryLive ==
    /\ Init
    /\ [][RetryNext]_vars
    /\ WF_vars(RetryLoopShutdown \/ RetryLoopResponse \/ RetryLoopException)

(***************************************************************************)
(* The counters of the hybrid backend: process_image calls one after the   *)
(* other, and process_image calls on concurrent executor threads.          *)
(***************************************************************************)
StatsNext ==
    \/ \E t \in Threads : StatsCallSequential(t)
    \/ \E t \in Threads : StatsLoad(t)
    \/ \E t \in Threads : StatsStore(t)
    \/ \E t \in Threads : StatsBackends(t)
    \/ \E t \in Threads : StatsReturn(t)

SpecStats == Init /\ [][StatsNext]_vars

ThreadsNext ==
    \/ \E t \in Threads : StatsCallConcurrent(t)
    \/ \E t \in Threads : StatsLoad(t)
    \/ \E t \in Threads : StatsStore(t)
    \/ \E t \in Threads : StatsBackends(t)
    \/ \E t \in Threads : StatsReturn(t)

SpecThreads == Init /\ [][ThreadsNext]_vars

(***************************************************************************)
(* The detector on its own: detect is called on every text of up to        *)
(* MaxDetectTokens tokens, in both modes.                                  *)
(***************************************************************************)
DetectNext ==
    \/ DetectCall
    \/ DetectReturned

SpecDetector == Init /\ [][DetectNext]_vars

(***************************************************************************)
(* _write_output on its own: calls with any results, one after the other,  *)
(* each over the artifact the one before it wrote.                         *)
(***************************************************************************)
OutputNext ==
    \/ WriteOutputCall
    \/ WriteOutputBegin
    \/ WriteOutputSection
    \/ WriteOutputDone

SpecOutput == Init /\ [][OutputNext]_vars

(***************************************************************************)
(* The claims.                                                             *)
(***************************************************************************)
Disjoint(st) == Range(st.completed_pages) \cap Range(st.failed_pages) = {}
Covers(big, small) ==
    /\ Range(small.completed_pages) \subseteq Range(big.completed_pages)
    /\ Range(small.failed_pages) \subseteq Range(big.failed_pages)

\* C1: whenever the process stops inside OCRCache.save, get(page) is None or
\* the complete text of the save last renamed into place, never a partial
\* text; a page no save has renamed is absent from get and from pages().
C1_CacheAtomic ==
    \A p \in Pages :
        /\ OCRCache_get(p) = committed[p]
        /\ Contains(OCRCache_pages, p) <=> committed[p].exists

\* The process was killed between the temp write and the rename of a page
\* never saved before: the whole text is in the temp file, get is None.
C1_Witness ==
    /\ sv.pc = "killed_rename"
    /\ ~committed[sv.page].exists
    /\ files[<<sv.page, "tmp">>] = Some(sv.text)
    /\ OCRCache_get(sv.page) = None
    /\ ~Contains(OCRCache_pages, sv.page)

\* C2: the tokens granted to the acquire calls that have returned by time t
\* never exceed rate * t + capacity.
C2_BurstBound ==
    granted * TicksPerToken <= now + Capacity * TicksPerToken

\* C5: after any sequence of mark_completed and mark_failed calls no page
\* is in both completed_pages and failed_pages.
C5_Disjoint == Disjoint(state)

\* C7: a kill at any point of ProgressState.save loses no recorded outcome:
\* the load that follows returns a snapshot holding every outcome of the
\* last save that finished.
C7_SnapshotSurvives ==
    (ps = "loaded" /\ last_saved.exists) =>
        Covers(IF ProgressState_load.exists
               THEN ProgressState_load.data ELSE ProgressState,
               last_saved.data)

MultiAsync == run.entry = "process_pdf_async"
Requested == Range(run.pages)
TaskPages == {task[i].page : i \in DOMAIN task}
SnapshotCompleted ==
    IF run.snapshot.exists THEN Range(run.snapshot.data.completed_pages) ELSE {}
PersistedCompleted ==
    IF ProgressState_load.exists
    THEN Range(ProgressState_load.data.completed_pages) ELSE {}
InOutput(p) == Contains(OutputPages, p)

\* A resumed, non-dry-run call of process_pdf_async whose cache holds only
\* requested pages, past the creation of its tasks.
ResumeCase ==
    /\ MultiAsync
    /\ run.resume
    /\ ~run.dry_run
    /\ run.cached \subseteq Requested
    /\ pc # "convert"

\* C3 (as amended): in a resumed process_pdf_async call with requested pages
\* R and a cache holding the pages C, a subset of R, the pages dispatched are
\* R minus C minus the completed pages of the loaded snapshot, and when the
\* call returns completed_pages is a superset of C.
C3_ResumePending ==
    ResumeCase =>
        /\ TaskPages = Requested \ (run.cached \cup SnapshotCompleted)
        /\ pc = "returned" => run.cached \subseteq Range(state.completed_pages)

\* A resumed call has returned that recognized a page and left out a page
\* the snapshot lists as completed and the cache does not hold.
C3_Witness ==
    /\ ResumeCase
    /\ pc = "returned"
    /\ \E i \in DOMAIN task : task[i].st = "consumed" /\ task[i].res.kind = "success"
    /\ \E p \in Requested : p \in SnapshotCompleted /\ p \notin run.cached

\* C3 (as stated): whatever the snapshot holds, the pages dispatched are R
\* minus C.
C3_Original ==
    ResumeCase =>
        /\ TaskPages = Requested \ run.cached
        /\ pc = "returned" => run.cached \subseteq Range(state.completed_pages)

\* C4: once a page is in the persisted completed_pages, an interruption of
\* the run (an exception leaving the call, the process killed) leaves the
\* page's text in the cache or in the output artifact.
C4_TextSurvives ==
    pc \in {"raised", "killed"} =>
        \A p \in PersistedCompleted : OCRCache_has(p) \/ InOutput(p)

\* C6: when process_pdf or process_pdf_async returns (not a dry run), every
\* mark it made is in the persisted snapshot: the state is the state the
\* call started from, or the snapshot holds it.
C6_MarksSaved ==
    (run.entry \in {"process_pdf", "process_pdf_async"} /\ pc = "returned"
        /\ ~run.dry_run) =>
        \/ state = (IF run.snapshot.exists THEN run.snapshot.data ELSE ProgressState)
        \/ ProgressState_load = Some(state)

\* C8: when the finalization of process_pdf_async begins, no task whose
\* backend call had started is still running or holds a successful result
\* that was not applied.
C8_InFlightApplied ==
    (MultiAsync /\ pc = "finalize") =>
        \A i \in DOMAIN task :
            /\ task[i].st # "running"
            /\ ~(task[i].st = "done" /\ task[i].res.kind = "success")

\* The point at which a concurrent run that writes the output artifact
\* starts to do so.
FinalizationBegins ==
    \/ /\ MultiAsync
       /\ pc = "finalize"
       /\ DOMAIN OCRCache_all_results # {}
    \/ /\ run.entry = "AsyncOCRProcessor.process_pdf"
       /\ pc = "write_output"
       /\ wo.pc = "begin"

\* C9: when the finalization of a concurrent run begins, each requested page
\* is in exactly one of completed_pages and failed_pages.
C9_AllTerminal ==
    FinalizationBegins =>
        \A p \in Requested :
            Contains(state.completed_pages, p) # Contains(state.failed_pages, p)

\* A non-dry-run call of process_pdf_async has returned.
Returned == MultiAsync /\ pc = "returned" /\ ~run.dry_run

\* C10: a non-dry-run process_pdf_async call returns only out of its
\* finalization, and at its return the output artifact holds every page of
\* the cache with exactly the cached text.
C10_FinalizedOutput ==
    /\ [](Returned =>
            \A p \in Pages :
                OCRCache_has(p) =>
                    InOutput(p) /\ SectionText(p) = OCRCache_get(p).data)
    /\ [][(Returned' /\ pc # "returned") => pc \in {"finalize", "write_output"}]_vars

\* The call returned after a shutdown request, the cache holding a text that
\* ends in whitespace, the artifact holding a page of a prior artifact too.
C10_Witness ==
    /\ Returned
    /\ shutdown
    /\ \E q \in Pages : InOutput(q) /\ ~OCRCache_has(q)
    /\ \E p \in Pages :
         /\ OCRCache_get(p) = Some(<<"y", " ">>)
         /\ InOutput(p)
         /\ SectionText(p) = <<"y", " ">>

EveryCallSucceeded ==
    \A i \in DOMAIN task : task[i].st = "consumed" /\ task[i].res.kind = "success"
Ascending(s) == \A i, j \in 1..Len(s) : i < j => s[i] < s[j]

\* C11: a resumed process_pdf_async call that follows process_pdf_async
\* runs, ended or killed at any point, creates tasks for exactly the
\* requested pages the cache does not hold; when each of them succeeded and
\* the call returns, the output artifact holds every requested page, its
\* sections in ascending page order.
C11_ResumeCompletes ==
    (MultiAsync /\ run.resume /\ ~run.dry_run /\ pc # "convert") =>
        /\ TaskPages = Requested \ run.cached
        /\ (pc = "returned" /\ EveryCallSucceeded) =>
               /\ Requested \subseteq Range(OutputPages)
               /\ Ascending(OutputPages)

\* The resumed call found one of the two requested pages in the cache and
\* no readable snapshot (the run before it was killed between the cache
\* write and the end of the snapshot save), recognized the other page, and
\* returned with both pages in the artifact.
C11_Witness ==
    /\ Returned
    /\ run.resume
    /\ run.pages = <<1, 2>>
    /\ ~run.snapshot.exists
    /\ Cardinality(run.cached) = 1
    /\ task # <<>>
    /\ EveryCallSucceeded
    /\ OutputPages = <<1, 2>>

\* C12: in a process_pdf_async call no two tasks are for the same page, and
\* no task is for a page that was cached or recorded completed when the
\* call started.
C12_OneTaskPerPage ==
    MultiAsync =>
        /\ \A i, j \in DOMAIN task : i # j => task[i].page # task[j].page
        /\ \A i \in DOMAIN task :
               task[i].page \notin (run.cached \cup SnapshotCompleted)

\* C13: at every instant of a run of AsyncOCRProcessor.process_pdf or
\* process_pdf_async at most max_concurrent backend calls are in flight.
C13_BoundedInFlight ==
    run.entry \in {"process_pdf_async", "AsyncOCRProcessor.process_pdf"} =>
        InFlight <= max_concurrent

\* max_concurrent backend calls are in flight and a further task is held
\* back: at the semaphore in AsyncOCRProcessor, not yet started in
\* process_pdf_async.
C13_Witness ==
    /\ InFlight = max_concurrent
    /\ \/ /\ run.entry = "AsyncOCRProcessor.process_pdf"
          /\ \E i \in DOMAIN task : task[i].st = "waiting"
       \/ /\ MultiAsync
          /\ shutdown
          /\ \E i \in DOMAIN task : task[i].st = "new"


(***************************************************************************)
(* HybridBackend.process_image                                             *)
(***************************************************************************)
EscalationTiers == {"verify", "high_priority"}

\* a process_image call on an initialized backend has returned and its primary succeeded
PrimarySucceeded ==
    hb.pc = "returned" /\ hb.initialized /\ hb.primary.success

\* a process_image call on an initialized backend has returned and its primary failed
PrimaryFailed ==
    /\ hb.pc = "returned" /\ hb.initialized
    /\ ~hb.primary.success /\ hb.primary.backend_used = "easyocr"

\* C14 (as amended): when the primary succeeds, the escalation backend is
\* called, once, exactly if the primary's confidence is below
\* confidence_threshold or verify_mantras is on and the detector rates the
\* primary's text verify or high_priority; with verify_mantras off the
\* detector is not consulted and only the confidence decides.
C14_EscalationRule ==
    PrimarySucceeded =>
        /\ hb.gemini_calls \in {0, 1}
        /\ hb.detect_calls = (IF hb.verify_mantras THEN 1 ELSE 0)
        /\ hb.gemini_calls = 1 <=>
              \/ hb.primary.confidence < hb.confidence_threshold
              \/ /\ hb.verify_mantras
                 /\ HybridDetect(hb.primary.text).recommendation \in EscalationTiers

C14_Witness ==
    /\ PrimarySucceeded
    /\ hb.verify_mantras
    /\ hb.primary.confidence >= hb.confidence_threshold
    /\ HybridDetect(hb.primary.text).recommendation = "verify"
    /\ hb.gemini_calls = 1

\* C14 as stated: under every configuration the escalation backend is called
\* exactly if the confidence is below the threshold or the detector's tier
\* for the primary's text is verify or high_priority.
C14_Original ==
    PrimarySucceeded =>
        (hb.gemini_calls = 1 <=>
            \/ hb.primary.confidence < hb.confidence_threshold
            \/ HybridDetect(hb.primary.text).recommendation \in EscalationTiers)

\* C15: when the primary succeeds with confidence at or above the threshold
\* and the detector raises no escalation flag on its text, process_image
\* returns a successful result with the primary's text and the escalation
\* backend is not called.
C15_PrimaryOnly ==
    (/\ PrimarySucceeded
     /\ hb.primary.confidence >= hb.confidence_threshold
     /\ ~(/\ hb.verify_mantras
          /\ HybridDetect(hb.primary.text).recommendation \in EscalationTiers))
        => /\ hb.result.success
           /\ hb.result.text = hb.primary.text
           /\ hb.gemini_calls = 0

C15_Witness ==
    /\ PrimarySucceeded
    /\ hb.verify_mantras
    /\ hb.primary.confidence = hb.confidence_threshold
    /\ hb.primary.text = <<"shiva", "x">>
    /\ hb.detect_calls = 1
    /\ hb.result.text = <<"shiva", "x">>

C17_PrimaryFailure ==
    /\ hb.pc = "fallback" => hb.gemini_calls = 0 /\ hb.detect_calls = 0
    /\ PrimaryFailed =>
          /\ hb.gemini_calls = 1
          /\ hb.detect_calls = 0
          /\ hb.result = [hb.gemini EXCEPT !.backend_used = "hybrid:gemini-fallback"]

C17_Witness ==
    /\ PrimaryFailed
    /\ hb.gemini.success
    /\ hb.result.success
    /\ hb.result.backend_used = "hybrid:gemini-fallback"

(***************************************************************************)
(* Failures of single pages                                                *)
(***************************************************************************)
\* the tasks whose recognition ended without a text: a failed result, or an
\* exception out of Image.open or of the backend
FailedTasks ==
    {i \in DOMAIN task : /\ task[i].st = "consumed"
                         /\ task[i].res.kind \in {"failure", "raised"}}

\* C18: in process_pdf_async a failure of one page (the backend raises, the
\* image cannot be read, the retries are used up) marks that page failed and
\* never leaves the run as an exception; only a failed cache write does.
C18_PageFailureConfined ==
    MultiAsync =>
        /\ pc = "raised" => sv.pc = "raised"
        /\ \A i \in FailedTasks : Contains(state.failed_pages, task[i].page)

(***************************************************************************)
(* A failed OCRCache.save                                                  *)
(***************************************************************************)
\* OCRCache.save has raised in a call of process_pdf_async
SaveRaised == MultiAsync /\ sv.pc = "raised"

\* what a failed save leaves behind, the temp file apart
SaveFailureContained ==
    /\ SaveRaised =>
          /\ ~OCRCache_has(sv.page)
          /\ pc \in {"cache_save", "raised"}
          /\ ~Contains(state.completed_pages, sv.page)
          /\ sv.page \notin PersistedCompleted
    /\ (MultiAsync /\ sv.pc = "returned") =>
          OCRCache_get(sv.page) = Some(sv.text)

\* C19 (as amended): when the temp write or the rename of OCRCache.save
\* raises, no page file for the page becomes visible (a temp file whose
\* unlink fails too is left behind, and is no page file), the exception
\* reaches the caller and ends process_pdf_async, and the page is in neither
\* completed_pages nor the persisted snapshot; a save whose metadata write
\* failed returns with the page file in place.
C19_SaveFailure ==
    /\ []SaveFailureContained
    /\ [][(SaveRaised /\ pc = "cache_save")
              => \/ pc' \in {"raised", "killed"}
                 \/ (pc' = pc /\ sv' = sv /\ state' = state)]_vars

C19_Witness ==
    /\ SaveRaised /\ pc = "raised"
    /\ run.cached = {}
    /\ files[SaveTemp].exists
    /\ \E q \in Pages : /\ q # sv.page
                        /\ OCRCache_has(q)
                        /\ ~files[_meta_path(q)].exists
                        /\ Contains(state.completed_pages, q)

\* C19 as stated: after a failed save the temp file is removed as well.
C19_Original ==
    SaveRaised => ~files[SaveTemp].exists /\ ~OCRCache_has(sv.page)

(***************************************************************************)
(* Pages whose rasterization failed                                        *)
(***************************************************************************)
\* the pending pages for which the conversion produced no image
NoImagePages == Range(pending_pages) \ image_paths

\* a concurrent call has converted its pages, handled every task and
\* returned, with no shutdown requested
ConcurrentReturned ==
    /\ run.entry \in {"process_pdf_async", "AsyncOCRProcessor.process_pdf"}
    /\ pc = "returned"
    /\ ~run.dry_run
    /\ ~shutdown

\* C20: a page whose rasterization fails is marked failed and no recognition
\* call is made for it, in AsyncOCRProcessor.process_pdf as in
\* process_pdf_async.
C20_NoImageMarkedFailed ==
    /\ \A i \in DOMAIN task :
          task[i].page \in NoImagePages =>
              /\ task[i].st \notin {"waiting", "running"}
              /\ task[i].res.kind # "success"
    /\ ConcurrentReturned =>
          \A p \in NoImagePages : Contains(state.failed_pages, p)

(***************************************************************************)
(* Shutdown                                                                *)
(***************************************************************************)
\* the drain loop takes the result of task i in this step
Awaited(i) ==
    /\ i \in DOMAIN task /\ i \in DOMAIN task'
    /\ task[i].st = "done" /\ task'[i].st = "consumed"

\* C21: a page whose task ended with the shutdown outcome is added neither
\* to failed_pages nor to completed_pages when the drain loop takes its
\* result, in AsyncOCRProcessor.process_pdf as in process_pdf_async.
C21_ShutdownNotFailed ==
    [][\A i \in 1..NumPages :
          (Awaited(i) /\ task[i].res.kind = "shutdown") => state' = state]_vars

\* the backend call of task i starts in this step
CallStarts(i) ==
    /\ i \in DOMAIN task /\ i \in DOMAIN task'
    /\ task[i].st # "running" /\ task'[i].st = "running"

\* C22: once shutdown has been requested no backend call is started, neither
\* by a task that has not begun nor by a retry, nor by a task that was
\* waiting for a rate-limiter token or for the concurrency gate when the
\* request arrived.
C22_NoCallAfterShutdown ==
    [][shutdown => \A i \in 1..NumPages : ~CallStarts(i)]_vars

(***************************************************************************)
(* Retry loops                                                             *)
(***************************************************************************)
\* C23: a backend response is accepted as a successful page result only if
\* it passes validation, in GeminiBackend.process_image as in
\* AsyncOCRProcessor._process_single_page.
C23_ValidatedOnly ==
    (/\ rl.pc = "returned"
     /\ rl.loop \in {"GeminiBackend.process_image",
                     "AsyncOCRProcessor._process_single_page"}
     /\ rl.result.success)
        => _validate_response(rl.result.text)

\* C29: in the retry loops of _process_single_page and of
\* GeminiBackend.process_image the last attempt never retries: after the
\* max_retries-th failed attempt no further call is made and no backoff
\* delay is slept, for quota errors as for other errors.
C29_LastAttemptNoBackoff ==
    rl.loop \in {"GeminiBackend.process_image",
                 "AsyncOCRProcessor._process_single_page"}
        => /\ rl.calls <= max_retries
           /\ \A i \in DOMAIN rl.delays :
                 rl.delays[i].attempt < max_retries - 1

\* C30: in every retry loop the backoff delay after failed attempt a is
\* base_delay * 3^a for a quota or rate-limit error and base_delay * 2^a for
\* any other error.
C30_BackoffDelay ==
    \A i \in DOMAIN rl.delays :
        rl.delays[i].delay =
            rl.base * (IF rl.delays[i].error = "quota"
                       THEN Pow(3, rl.delays[i].attempt)
                       ELSE Pow(2, rl.delays[i].attempt))

(***************************************************************************)
(* ProgressState.mark_completed and mark_failed                            *)
(***************************************************************************)
\* how often page occurs in a list of pages
Occurrences(pages, page) ==
    Cardinality({i \in 1..Len(pages) : pages[i] = page})

\* the membership of every page but page is the same in both states
OthersUntouched(before, after, page) ==
    \A q \in 1..NumMarkPages :
        q # page =>
            /\ Contains(after.completed_pages, q) = Contains(before.completed_pages, q)
            /\ Contains(after.failed_pages, q) = Contains(before.failed_pages, q)

\* C24: mark_completed is idempotent and clears the failed mark: after
\* mark_completed(p), p is in completed_pages exactly once and not in
\* failed_pages, a second call changes nothing, and no other page's
\* membership in either list changes.
C24_MarkCompleted ==
    mk.op = "mark_completed" =>
        /\ Occurrences(state.completed_pages, mk.page) = 1
        /\ ~Contains(state.failed_pages, mk.page)
        /\ mark_completed(state, mk.page) = state
        /\ OthersUntouched(mk.before, state, mk.page)

C24_Witness ==
    /\ mk.op = "mark_completed"
    /\ Contains(mk.before.failed_pages, mk.page)
    /\ Contains(mk.before.completed_pages, mk.page)
    /\ Len(state.failed_pages) >= 1

\* C25: mark_failed is idempotent and additive only: it leaves
\* completed_pages unchanged, adds p to failed_pages at most once, and a
\* page that is already completed does not become a failed page.
C25_MarkFailed ==
    mk.op = "mark_failed" =>
        /\ state.completed_pages = mk.before.completed_pages
        /\ Occurrences(state.failed_pages, mk.page) = 1
        /\ mark_failed(state, mk.page) = state
        /\ OthersUntouched(mk.before, state, mk.page)
        /\ Contains(mk.before.completed_pages, mk.page)
               => ~Contains(state.failed_pages, mk.page)

(***************************************************************************)
(* MantraDetector.detect                                                   *)
(***************************************************************************)
\* the matches of the text a call of detect has returned for
SeedMatches == CountAll(md.text, BIJA_MANTRAS)
NumberedVerseMatches == Count(md.text, NumberedVerse)
SectionMatches == Present(md.text, SECTION_INDICATORS)

\* no token of the text is known to any table of the detector
NoPattern == \A i \in 1..Len(md.text) : md.text[i] = "x"

HighPriorityRule ==
    SeedMatches >= 3 \/ (SeedMatches >= 1 /\ SectionMatches >= 2)

\* C26: detect returns high_priority exactly when there are at least 3
\* seed-syllable matches, or at least 1 and at least 2 section-keyword
\* matches; verify exactly when the text is flagged and not high_priority;
\* skip otherwise.  A text without a matched pattern gets skip and score 0;
\* a text with three distinct seed-syllable tokens gets high_priority.
C26_Tiers ==
    md.pc = "returned" =>
        /\ md.result.recommendation = "high_priority" <=> HighPriorityRule
        /\ md.result.recommendation = "verify"
              <=> (md.result.contains_mantra /\ ~HighPriorityRule)
        /\ md.result.recommendation = "skip"
              <=> (~md.result.contains_mantra /\ ~HighPriorityRule)
        /\ NoPattern =>
              md.result.recommendation = "skip" /\ md.result.confidence = 0
        /\ Cardinality(Range(md.text) \cap BIJA_MANTRAS) >= 3
              => md.result.recommendation = "high_priority"

C26_Witness ==
    /\ md.pc = "returned"
    /\ ~md.strict_mode
    /\ md.text = <<"om", "mantra", "yantra">>
    /\ md.result.recommendation = "high_priority"

MatchedCategories ==
    {c \in {"seed", "verse_marker", "numbered_verse", "section", "deity", "yantra"} :
        CASE c = "seed" -> SeedMatches > 0
          [] c = "verse_marker" ->
                CountAll(md.text, VERSE_MARKERS) + 2 * NumberedVerseMatches > 0
          [] c = "numbered_verse" -> NumberedVerseMatches > 0
          [] c = "section" -> SectionMatches > 0
          [] c = "deity" -> Present(md.text, DEITY_NAMES) > 0
          [] OTHER -> Present(md.text, YANTRA_TERMS) > 0}

CategoryWeight(c) ==
    CASE c = "seed" -> 90
      [] c = "verse_marker" -> 70
      [] c = "numbered_verse" -> 80
      [] c = "section" -> 60
      [] c = "deity" -> 60
      [] OTHER -> 75

\* C32: the score of detect is 0 when no category matches and otherwise
\* min(1.0, w * (1 + 0.05 * min(k - 1, 5))), w the largest weight among
\* the matched categories (one fixed weight per category) and k the number
\* of distinct categories matched; the score lies in [0, 1].
C32_Score ==
    md.pc = "returned" =>
        /\ md.result.confidence \in 0..10000
        /\ MatchedCategories = {} => md.result.confidence = 0
        /\ MatchedCategories # {} =>
              LET w == CHOOSE x \in {CategoryWeight(c) : c \in MatchedCategories} :
                          \A c \in MatchedCategories : CategoryWeight(c) <= x
                  k == Cardinality(MatchedCategories)
              IN  md.result.confidence = Min(10000, w * (100 + 5 * Min(k - 1, 5)))

\* C40: in both modes the tier of detect differs from skip if and only if
\* the text is flagged; a high_priority tier never occurs on an unflagged
\* text.
C40_TierIffFlagged ==
    md.pc = "returned" =>
        /\ md.result.recommendation # "skip" <=> md.result.contains_mantra
        /\ md.result.recommendation = "high_priority" => md.result.contains_mantra

\* the lenient mode with one seed-syllable match and two section keywords:
\* flagged by the score alone, and high_priority
C40_Witness ==
    /\ md.pc = "returned"
    /\ ~md.strict_mode
    /\ SeedMatches = 1
    /\ SectionMatches = 2
    /\ NumberedVerseMatches = 0
    /\ md.result.contains_mantra
    /\ md.result.recommendation = "high_priority"

(***************************************************************************)
(* _write_output                                                           *)
(***************************************************************************)
\* the pages of the sections of the artifact the call found
PriorPages ==
    IF ~wh.prior.exists THEN {}
    ELSE {wh.prior.data[i].page : i \in 1..Len(wh.prior.data)}

\* the text of the section of page p in the artifact the call found (the
\* artifact was written by _write_output: one section per page)
PriorText(p) ==
    LET i == CHOOSE k \in 1..Len(wh.prior.data) : wh.prior.data[k].page = p
    IN  wh.prior.data[i].text

\* C28: the artifact _write_output has written has one section per page in
\* strictly ascending page order and holds the pages of the prior artifact
\* and of the new results; a new result replaces the prior text of its
\* page, and a prior page without a new result is kept with its text
\* (compared here up to leading and trailing whitespace).
C28_MergedArtifact ==
    (wh.called /\ wo.pc = "returned") =>
        /\ Ascending(OutputPages)
        /\ Range(OutputPages) = PriorPages \cup DOMAIN wh.new
        /\ \A p \in DOMAIN wh.new : SectionText(p) = wh.new[p]
        /\ \A p \in PriorPages \ DOMAIN wh.new :
              Strip(SectionText(p)) = Strip(PriorText(p))

(***************************************************************************)
(* The retry loops: termination.                                           *)
(***************************************************************************)
\* the calls of one loop so far are the failed attempts before this one
RetryBounded ==
    /\ rl.calls <= max_retries
    /\ rl.pc = "attempt" => (rl.attempt < max_retries /\ rl.calls = rl.attempt)
    /\ (rl.pc = "returned" /\ rl.result.success) =>
          (rl.last = "accepted" /\ rl.calls = rl.attempt + 1)
    /\ (rl.pc = "returned" /\ ~rl.result.success /\ rl.last # "shutdown") =>
          (rl.calls = max_retries /\ rl.attempt = max_retries - 1)

\* C31: for every pattern of backend errors and rejected responses a call
\* of a retry loop returns; it makes at most max_retries backend calls, a
\* success is returned by the first accepted response (every call before it
\* failed, none follows it), and a terminal failure that is not a shutdown
\* is returned after exactly max_retries failed attempts.
C31_RetryTerminates ==
    /\ []RetryBounded
    /\ (rl.pc = "attempt") ~> (rl.pc = "returned")

C31_Witness ==
    /\ rl.pc = "returned"
    /\ rl.result.success
    /\ rl.calls = max_retries
    /\ rl.loop = "GeminiBackend.process_image"

(***************************************************************************)
(* TokenBucket.acquire                                                     *)
(***************************************************************************)
\* C34: an acquire(cost) that finds the refilled token count covering the
\* cost takes the cost from it and returns the wait 0; otherwise it waits
\* (cost - tokens) / rate, a positive time, and leaves 0 tokens when it
\* returns; a cost above the capacity always waits; with any interleaving
\* of the callers the token count stays within [0, capacity].
C34_Acquire ==
    [][/\ tokens' \in 0..Scaled(Capacity)
       /\ \A c \in Callers :
            /\ (caller[c].pc = "queued" /\ caller'[c].pc # "queued") =>
                  IF Refilled >= Scaled(caller[c].cost)
                  THEN /\ caller'[c].pc = "returned"
                       /\ caller'[c].wait_time = 0
                       /\ tokens' = Refilled - Scaled(caller[c].cost)
                  ELSE /\ caller'[c].pc = "sleeping"
                       /\ caller'[c].wait_time = Scaled(caller[c].cost) - Refilled
                       /\ caller'[c].wait_time > 0
                       /\ caller'[c].wake = now + caller'[c].wait_time
            /\ (caller[c].pc = "queued" /\ caller'[c].pc # "queued"
                  /\ caller[c].cost > Capacity) => caller'[c].pc = "sleeping"
            /\ (caller[c].pc = "sleeping" /\ caller'[c].pc # "sleeping") =>
                  /\ caller'[c].pc = "returned"
                  /\ caller'[c].wait_time = caller[c].wait_time
                  /\ now >= caller[c].wake
                  /\ tokens' = 0]_vars

\* an acquire with a cost above the capacity has waited and returned
C34_Witness ==
    \E c \in Callers :
        /\ caller[c].pc = "returned"
        /\ caller[c].cost > Capacity
        /\ caller[c].wait_time > 0
        /\ tokens = 0
        /\ \E d \in Callers \ {c} : caller[d].pc = "queued"

(***************************************************************************)
(* HybridBackend._stats                                                    *)
(***************************************************************************)
\* C39: after every sequence of sequential process_image calls on an
\* initialized backend total_pages is the number of calls, each call has
\* incremented exactly one of primary_only and gemini_verified unless it
\* returned the primary's result as a degraded fallback, and
\* gemini_verified is the number of calls whose returned result came from
\* a successful escalation backend call.
C39_SequentialStats ==
    HsAllIdle =>
        /\ get_stats.total_pages = hs.calls
        /\ get_stats.primary_only + get_stats.gemini_verified + hs.degraded = hs.calls
        /\ get_stats.gemini_verified = hs.verified

\* C36: with process_image running for several pages on concurrent
\* executor threads, once all calls have returned total_pages is the number
\* of calls made and gemini_verified + primary_only does not exceed it.
C36_ConcurrentStats ==
    HsAllIdle =>
        /\ get_stats.total_pages = hs.calls
        /\ get_stats.gemini_verified + get_stats.primary_only <= hs.calls

(***************************************************************************)
(* The phases of a run                                                     *)
(***************************************************************************)
AsyncEntries == {"process_pdf_async", "AsyncOCRProcessor.process_pdf"}

\* the phase a run of an asynchronous entry point is in: 1 converting,
\* 2 dispatching and draining (the tasks exist), 3 finalized
PhaseOf(at) ==
    CASE at = "convert" -> 1
      [] at \in {"drain_check", "drain_await", "cache_save", "persist",
                 "async_drain"} -> 2
      [] at \in {"finalize", "write_output", "returned", "interrupt_save"} -> 3
      [] OTHER -> 0

\* a step of a run of an asynchronous entry point that leaves it running
\* or returns from it
RunStep ==
    /\ run.entry \in AsyncEntries
    /\ ~Stopped
    /\ pc' \notin {"raised", "killed"}

\* the phases in their order, no recognition call before the conversion is
\* over, the artifact written after the drain loop, and the flag not
\* cleared while the run lasts
PhasesInOrder ==
    /\ RunStep => PhaseOf(pc') >= PhaseOf(pc)
    /\ RunStep => \A i \in 1..NumPages : CallStarts(i) => PhaseOf(pc) = 2
    /\ (RunStep /\ PhaseOf(pc) = 1) => task = <<>>
    /\ (RunStep /\ output_file' # output_file) => PhaseOf(pc) = 3
    /\ (RunStep /\ shutdown) => shutdown'

\* C33 as amended: within one run of process_pdf_async or of
\* AsyncOCRProcessor.process_pdf the phases Converting, Dispatching and
\* Draining, Finalized occur in this order and none is re-entered; every
\* conversion is over before the first recognition call starts, the output
\* artifact is written only after the drain loop has ended, and the
\* shutdown flag is set only while a run is in progress, from the
\* Converting phase on, and is never cleared during the run.
C33_Phases ==
    [][/\ PhasesInOrder
       /\ (~shutdown /\ shutdown') =>
              (run.entry \in AsyncEntries /\ PhaseOf(pc) >= 1)]_vars

\* the flag is set while the pages are being converted
C33_Witness ==
    /\ run.entry = "process_pdf_async"
    /\ pc = "convert"
    /\ shutdown
    /\ pending_pages # <<>>

\* C33: the phases in their order as above, and the shutdown flag can be
\* set only once dispatching has begun.
C33_Original ==
    [][/\ PhasesInOrder
       /\ (~shutdown /\ shutdown') => PhaseOf(pc) = 2]_vars

(***************************************************************************)
(* The cache write before the completed mark                               *)
(***************************************************************************)
\* the cache holds page p with the whole text of the save that put it there
CachedWhole(p) ==
    /\ OCRCache_has(p)
    /\ committed[p].exists
    /\ OCRCache_get(p).data = committed[p].data

\* C35: in process_pdf_async every page the run has added to the in-memory
\* completed_pages is in the cache with its full text (the text the run
\* recorded for it), and so is every page of the persisted
\* completed_pages, in every state and after the process was killed at any
\* point.
C35_CachedBeforeMarked ==
    /\ MultiAsync =>
          \A p \in Range(state.completed_pages) \ SnapshotCompleted :
              /\ CachedWhole(p)
              /\ p \in DOMAIN results => OCRCache_get(p).data = results[p]
    /\ \A p \in PersistedCompleted : CachedWhole(p)

\* the process was killed after the snapshot with one page was saved and
\* after the cache write of the other page, before that page was marked
C35_Witness ==
    /\ pc = "killed"
    /\ PersistedCompleted # {}
    /\ \E p \in Pages : OCRCache_has(p) /\ p \notin PersistedCompleted

(***************************************************************************)
(* Cached pages and the resume flag                                        *)
(***************************************************************************)
\* C37: in process_pdf_async no task is created for a page that was in the
\* cache when the call started, with resume and without; a call without
\* resume does not mark those pages completed, so that when it returns its
\* completed count is smaller than the number of requested pages in the
\* output artifact whenever a requested page was cached.
C37_CachedNeverDispatched ==
    MultiAsync =>
        /\ TaskPages \cap run.cached = {}
        /\ \A i \in DOMAIN task :
               task[i].st = "running" => task[i].page \notin run.cached
        /\ ~run.resume => Range(state.completed_pages) \cap run.cached = {}
        /\ (pc = "returned" /\ ~run.resume /\ ~run.dry_run
                /\ Requested \cap run.cached # {}) =>
               Cardinality(Range(state.completed_pages))
                   < Cardinality(Requested \cap Range(OutputPages))

\* a call without resume found one of its two pages cached, recognized the
\* other and returned: one page completed, two requested pages in the output
C37_Witness ==
    /\ MultiAsync
    /\ pc = "returned"
    /\ ~run.resume
    /\ ~run.dry_run
    /\ run.pages = <<1, 2>>
    /\ Cardinality(run.cached) = 1
    /\ Cardinality(Range(state.completed_pages)) = 1
    /\ OutputPages = <<1, 2>>

(***************************************************************************)
(* The persisted snapshot across runs                                      *)
(***************************************************************************)
\* C38: the persisted snapshot is monotonic across runs: no finished save
\* of a run, with resume or without, over all pages or a subset, removes a
\* page from the completed_pages a finished save had recorded before.
C38_SnapshotMonotonic ==
    [][(last_saved.exists /\ last_saved'.exists) =>
          Range(last_saved.data.completed_pages)
              \subseteq Range(last_saved'.data.completed_pages)]_vars

=========================================================================
